---- MODULE Spec2Model ----
(***************************************************************************)
(* NotaNusa dashboard: the client-side aggregation of the analytics and    *)
(* reports pages, the debts form, and the data store's tables with their   *)
(* constraints and row-level policies.                                      *)
(*                                                                         *)
(* Amounts are numeric(15,2) columns; they are modelled as natural numbers *)
(* of the smallest currency unit.  A calendar date 'YYYY-MM-DD' is the     *)
(* tuple <<y, m, d>>; string comparison of two such dates is the           *)
(* lexicographic comparison of the tuples.                                 *)
(***************************************************************************)
EXTENDS Integers, Sequences, FiniteSets, TLC

VARIABLES
    tz,            \* the browser's time zone, relative to UTC
    anResponse,    \* AnalyticsPage: the response of the transactions query
    anLoading,     \* AnalyticsPage: loading
    monthlyData,   \* AnalyticsPage: monthlyData
    categoryData,  \* AnalyticsPage: categoryData
    rpResponse,    \* ReportsPage: the response of the transactions query
    rpInFlight,    \* ReportsPage: generateReport is awaiting the response
    rpLoading,     \* ReportsPage: loading
    reportData,    \* ReportsPage: reportData
    db,            \* the data store: each table, a function from row id to row
    nextId,        \* the data store: the next row id (ids are never given twice)
    lastOp,        \* the data store: the last statement of a caller and its outcome
    now,           \* the current instant: a UTC date and the tick of that day
    debtItems,     \* DebtsPage: items
    debtLoading,   \* DebtsPage: loading
    debtShowForm,  \* DebtsPage: showForm
    debtEditItem,  \* DebtsPage: editItem (its id; NULL when undefined)
    debtFormData,  \* DebtsPage: formData
    debtError,     \* DebtsPage: error
    debtPending,   \* DebtsPage: the requests awaiting their response
    user,          \* AuthProvider: user (NoUser when null)
    profile,       \* AuthProvider: profile (NoProfile when null)
    authLoading,   \* AuthProvider: loading
    isLogin,       \* AppContent: isLogin
    currentPage,   \* AppContent: currentPage
    sidebarOpen,   \* AppContent: sidebarOpen
    lastConfirm,   \* the browser: what the last confirm() dialog returned
    txTransactions,\* TransactionsPage: transactions
    txFiltered,    \* TransactionsPage: filteredTransactions
    txLoading,     \* TransactionsPage: loading
    txShowForm,    \* TransactionsPage: showForm
    txEdit,        \* TransactionsPage: editTransaction (its id; NULL when undefined)
    txFilter,      \* TransactionsPage: filterType, dateFrom, dateTo
    txForm,        \* TransactionForm: type, amount, categoryId, transactionDate,
                   \* categories, loading, error
    txPending,     \* TransactionsPage and TransactionForm: the requests awaiting
                   \* their response
    catCategories, \* CategoriesPage: categories
    catLoading,    \* CategoriesPage: loading
    catShowForm,   \* CategoriesPage: showForm
    catEdit,       \* CategoriesPage: editCategory (its id; NULL when undefined)
    catFormData,   \* CategoriesPage: formData
    catError,      \* CategoriesPage: error
    catPending,    \* CategoriesPage: the requests awaiting their response
    rpPeriod,      \* ReportsPage: period
    rpStartDate,   \* ReportsPage: startDate
    rpEndDate,     \* ReportsPage: endDate
    rpPending,     \* ReportsPage: the generateReport calls awaiting their response
    dashSummary,   \* DashboardPage: summary
    dashRecent,    \* DashboardPage: recentTransactions
    dashLoading,   \* DashboardPage: loading
    dashPending,   \* DashboardPage: the requests awaiting their response
    csvContent     \* ReportsPage: the lines of the file exportToCSV downloaded last

anVars == <<tz, anResponse, anLoading, monthlyData, categoryData>>

rpVars == <<rpResponse, rpInFlight, rpLoading, reportData>>

storeVars == <<db, nextId, lastOp>>

debtVars == <<now, debtItems, debtLoading, debtShowForm, debtEditItem, debtFormData,
              debtError, debtPending>>

appVars == <<user, profile, authLoading, isLogin, currentPage, sidebarOpen>>

txVars == <<txTransactions, txFiltered, txLoading, txShowForm, txEdit, txFilter, txForm,
            txPending>>

catVars == <<catCategories, catLoading, catShowForm, catEdit, catFormData, catError,
             catPending>>

crudVars == <<txVars, catVars>>

rpPageVars == <<rpPeriod, rpStartDate, rpEndDate, rpPending>>

dashVars == <<dashSummary, dashRecent, dashLoading, dashPending>>

loadVars == <<rpPageVars, dashVars, csvContent>>

vars == <<anVars, rpVars, storeVars, debtVars, appVars, lastConfirm, crudVars, loadVars>>

----------------------------------------------------------------------------
(* Bounds *)

\* longest query response enumerated exhaustively
MaxTx == 3

\* longest query response of the generated family (many category groups)
MaxLongTx == 12

\* rows ever inserted
MaxIds == 2

\* debts and receivables ever created through the page
MaxDebts == 1

\* categories ever created through the page
MaxCategories == 1

\* requests of CategoriesPage in flight when its form is submitted
MaxCategorySubmits == 2

\* transactions ever created through the page
MaxTransactions == 1

\* requests of one page in flight at once
MaxPending == 1

\* instants told apart within one day
TicksPerDay == 3

----------------------------------------------------------------------------
(* Sequences *)

RECURSIVE SumSeq(_)
SumSeq(s) ==
    IF s = <<>> THEN 0 ELSE Head(s) + SumSeq(Tail(s))

\* Array.prototype.filter
Filter(s, Keep(_)) ==
    SelectSeq(s, Keep)

\* Array.prototype.slice(0, n)
Slice0(s, n) ==
    IF Len(s) <= n THEN s ELSE SubSeq(s, 1, n)

\* x placed into the sorted sequence s: before the first element it must
\* precede, after every element it compares equal to (the sort is stable).
InsertSorted(x, s, Before(_, _)) ==
    LET firstAfter == { i \in 1..Len(s) : Before(x, s[i]) }
        p == IF firstAfter = {} THEN Len(s) + 1
             ELSE CHOOSE i \in firstAfter : \A j \in firstAfter : i <= j
    IN  SubSeq(s, 1, p - 1) \o <<x>> \o SubSeq(s, p, Len(s))

\* Array.prototype.sort(compare), with Before(a, b) standing for compare(a, b) < 0
SortBy(s, Before(_, _)) ==
    LET sorted[n \in 0..Len(s)] ==
            IF n = 0 THEN <<>> ELSE InsertSorted(s[n], sorted[n - 1], Before)
    IN  sorted[Len(s)]

\* lexicographic order of two sequences of numbers
RECURSIVE LexLess(_, _)
LexLess(a, b) ==
    IF b = <<>> THEN FALSE
    ELSE IF a = <<>> THEN TRUE
    ELSE IF Head(a) # Head(b) THEN Head(a) < Head(b)
    ELSE LexLess(Tail(a), Tail(b))

----------------------------------------------------------------------------
(* Dates *)

TimeZones == {"west", "utc", "east"}

IsLeap(y) ==
    (y % 4 = 0 /\ y % 100 # 0) \/ y % 400 = 0

DaysInMonth(y, m) ==
    IF m = 2 THEN (IF IsLeap(y) THEN 29 ELSE 28)
    ELSE IF m \in {4, 6, 9, 11} THEN 30 ELSE 31

PrevDay(date) ==
    IF date[3] > 1 THEN <<date[1], date[2], date[3] - 1>>
    ELSE IF date[2] > 1 THEN <<date[1], date[2] - 1, DaysInMonth(date[1], date[2] - 1)>>
    ELSE <<date[1] - 1, 12, 31>>

NextDay(date) ==
    IF date[3] < DaysInMonth(date[1], date[2]) THEN <<date[1], date[2], date[3] + 1>>
    ELSE IF date[2] < 12 THEN <<date[1], date[2] + 1, 1>>
    ELSE <<date[1] + 1, 1, 1>>

\* the calendar date of an instant in the local zone: one tick behind UTC in
\* the west, one tick ahead in the east
LocalDate(instant, zone) ==
    IF zone = "west" /\ instant.tick = 0 THEN PrevDay(instant.date)
    ELSE IF zone = "east" /\ instant.tick = TicksPerDay - 1 THEN NextDay(instant.date)
    ELSE instant.date

\* new Date('YYYY-MM-DD'): midnight UTC of that date
UtcMidnight(date) ==
    [date |-> date, tick |-> 0]

\* new Date('YYYY-MM-DD') read with getFullYear(), getMonth(), getDate() or
\* toLocaleDateString(): west of UTC it is still the evening before
LocalDateOfUtcMidnight(date, zone) ==
    LocalDate(UtcMidnight(date), zone)

\* a < b for two Date values
InstantBefore(a, b) ==
    LexLess(a.date \o <<a.tick>>, b.date \o <<b.tick>>)

\* the month names of toLocaleDateString('id-ID', {month: 'short'}), each as
\* the alphabet positions of its letters
MonthShort ==
    << <<10, 1, 14>>, <<6, 5, 2>>, <<13, 1, 18>>, <<1, 16, 18>>,
       <<13, 5, 9>>, <<10, 21, 14>>, <<10, 21, 12>>, <<1, 7, 21>>,
       <<19, 5, 16>>, <<15, 11, 20>>, <<14, 15, 22>>, <<4, 5, 19>> >>

\* the label of a month key 'YYYY-MM': month name, then the year
MonthLabel(monthKey, zone) ==
    LET local == LocalDateOfUtcMidnight(<<monthKey[1], monthKey[2], 1>>, zone)
    IN  [mon |-> local[2], year |-> local[1]]

\* a.month.localeCompare(b.month) < 0
LabelBefore(a, b) ==
    LexLess(MonthShort[a.mon] \o <<a.year>>, MonthShort[b.mon] \o <<b.year>>)

----------------------------------------------------------------------------
(* AnalyticsPage *)

Uncategorized == "Uncategorized"

\* the category rollup keeps this many groups
TopN == 10

\* the joined categories(name) of a transaction row: null when no category is linked
NoCategory == [linked |-> FALSE, name |-> ""]

Linked(n) == [linked |-> TRUE, name |-> n]

\* t.categories?.name || 'Uncategorized' (an empty name is falsy, too)
CategoryNameOf(t) ==
    IF t.categories.linked /\ t.categories.name # "" THEN t.categories.name
    ELSE Uncategorized

\* `${date.getFullYear()}-${String(date.getMonth() + 1).padStart(2, '0')}`
MonthKeyOf(t, zone) ==
    LET local == LocalDateOfUtcMidnight(t.transaction_date, zone)
    IN  <<local[1], local[2]>>

\* MonthlyPut with the amount assigned where the code adds it
MonthlyPutAssigns(map, t, zone) ==
    LET monthKey == MonthKeyOf(t, zone)
        at == { i \in 1..Len(map) : map[i].key = monthKey }
        existing == IF at = {} THEN [key |-> monthKey, income |-> 0, expense |-> 0]
                    ELSE map[CHOOSE i \in at : TRUE]
        updated == IF t.type = "income"
                   THEN [existing EXCEPT !.income = t.amount]
                   ELSE [existing EXCEPT !.expense = t.amount]
    IN  IF at = {} THEN Append(map, updated)
        ELSE [map EXCEPT ![CHOOSE i \in at : TRUE] = updated]

\* one callback of transactions.forEach on monthlyMap (entries in insertion order)
MonthlyPut(map, t, zone) ==
    LET monthKey == MonthKeyOf(t, zone)
        at == { i \in 1..Len(map) : map[i].key = monthKey }
        existing == IF at = {} THEN [key |-> monthKey, income |-> 0, expense |-> 0]
                    ELSE map[CHOOSE i \in at : TRUE]
        updated == IF t.type = "income"
                   THEN [existing EXCEPT !.income = @ + t.amount]
                   ELSE [existing EXCEPT !.expense = @ + t.amount]
    IN  IF at = {} THEN Append(map, updated)
        ELSE [map EXCEPT ![CHOOSE i \in at : TRUE] = updated]

\* one callback of transactions.forEach on categoryMap
CategoryPut(map, t) ==
    LET categoryName == CategoryNameOf(t)
        at == { i \in 1..Len(map) : map[i].name = categoryName }
    IN  IF at # {}
        THEN [map EXCEPT ![CHOOSE i \in at : TRUE].value = @ + t.amount]
        ELSE Append(map, [name |-> categoryName, value |-> t.amount, type |-> t.type])

MonthlyMapOf(transactions, zone) ==
    LET acc[n \in 0..Len(transactions)] ==
            IF n = 0 THEN <<>> ELSE MonthlyPut(acc[n - 1], transactions[n], zone)
    IN  acc[Len(transactions)]

CategoryMapOf(transactions) ==
    LET acc[n \in 0..Len(transactions)] ==
            IF n = 0 THEN <<>> ELSE CategoryPut(acc[n - 1], transactions[n])
    IN  acc[Len(transactions)]

\* Array.from(monthlyMap.entries()).map(...).sort(...)
MonthlyArray(transactions, zone) ==
    LET map == MonthlyMapOf(transactions, zone)
        labelled == [i \in 1..Len(map) |->
                        [month |-> MonthLabel(map[i].key, zone),
                         income |-> map[i].income,
                         expense |-> map[i].expense]]
    IN  SortBy(labelled, LAMBDA a, b : LabelBefore(a.month, b.month))

\* ValueBefore with the operands of the subtraction exchanged
ValueBeforeAscending(a, b) ==
    a.value < b.value

\* b.value - a.value < 0
ValueBefore(a, b) ==
    b.value < a.value

\* Array.from(categoryMap.entries()).map(...).sort(...).slice(0, 10)
CategoryArray(transactions) ==
    Slice0(SortBy(CategoryMapOf(transactions), ValueBefore), TopN)

----------------------------------------------------------------------------
(* Responses of the analytics query *)

TxTypes == {"income", "expense"}

ShortAmounts == {30, 40, 100}

ShortDates == {<<2023, 12, 31>>, <<2024, 1, 5>>, <<2024, 1, 10>>, <<2024, 2, 1>>}

DateLeq(a, b) ==
    a = b \/ LexLess(a, b)

ShortCategory(amount) ==
    IF amount = 100 THEN Linked("Sales")
    ELSE IF amount = 40 THEN Linked("Rent")
    ELSE NoCategory

ShortTx ==
    { [type |-> ty, amount |-> am, transaction_date |-> dt, categories |-> ShortCategory(am)] :
        ty \in TxTypes, am \in ShortAmounts, dt \in ShortDates }

\* .order('transaction_date', { ascending: true })
OrderedByDate(s) ==
    \A i \in 1..Len(s) - 1 : DateLeq(s[i].transaction_date, s[i + 1].transaction_date)

ShortInputs ==
    { s \in UNION { [1..n -> ShortTx] : n \in 0..MaxTx } : OrderedByDate(s) }

\* responses with up to MaxLongTx rows spread over up to MaxLongTx categories
LongTx(i, stride, ncat) ==
    [type |-> IF i % 3 = 0 THEN "expense" ELSE "income",
     amount |-> ((i * stride) % 5) * 10,
     transaction_date |-> <<2024, 3, 1 + (i \div 2)>>,
     categories |-> IF (i * stride) % (ncat + 1) = 0 THEN NoCategory
                    ELSE Linked(ToString((i * stride) % (ncat + 1)))]

LongInputs ==
    { [i \in 1..n |-> LongTx(i, stride, ncat)] :
        n \in (MaxTx + 1)..MaxLongTx, stride \in {1, 2, 3}, ncat \in 1..MaxLongTx }

AnalyticsInputs == ShortInputs \cup LongInputs

AnalyticsResponses ==
    { [error |-> FALSE, data |-> s] : s \in AnalyticsInputs }
    \cup { [error |-> TRUE, data |-> <<>>] }

----------------------------------------------------------------------------
(* The data store: tables, constraints and row-level policies *)

\* the identities of the data store: '1' is the one AuthProvider signs in
Users == {"1", "2"}

\* profiles.role: the identity '1' has the role signUp gives, 'user'; the
\* identity '2' is one whose profile row has role 'admin'
RoleOf(uid) ==
    IF uid = "2" THEN "admin" ELSE "user"

\* a null column value
NULL == 0

Tables == {"categories", "transactions", "cash_flow", "debts_receivables"}

NoOp ==
    [caller |-> "", table |-> "", op |-> "none", id |-> NULL,
     error |-> FALSE, count |-> 0, rows |-> {}, cascaded |-> {}]

StoreEmpty ==
    /\ db = [t \in Tables |-> <<>>]
    /\ nextId = 1
    /\ lastOp = NoOp

NoDate == <<>>

\* useState of formData, also set by Add New, by Cancel and after a save
\* (party_name and description are texts no computation reads)
EmptyForm ==
    [type |-> "debt", amount |-> "", paid_amount |-> "", due_date |-> NoDate]

\* the page before it is mounted
DebtsPageUnmounted ==
    /\ now = [date |-> <<2024, 3, 10>>, tick |-> 1]
    /\ debtItems = <<>>
    /\ debtLoading = TRUE
    /\ debtShowForm = FALSE
    /\ debtEditItem = NULL
    /\ debtFormData = EmptyForm
    /\ debtError = ""
    /\ debtPending = <<>>

RowsOf(table) ==
    { table[i] : i \in DOMAIN table }

\* USING policies that let every row through
PolicyUsingOpen(tbl, cmd, row, uid) ==
    TRUE

\* CREATE POLICY ... USING: the rows of tbl a statement cmd of uid may see.
\* Row level security is enabled on every table, so a command without a
\* policy (DELETE on cash_flow) sees no row.
PolicyUsing(tbl, cmd, row, uid) ==
    CASE tbl = "categories" /\ cmd \in {"SELECT", "UPDATE", "DELETE"} -> row.user_id = uid
      [] tbl = "transactions" /\ cmd \in {"SELECT", "UPDATE", "DELETE"} -> row.user_id = uid
      [] tbl = "cash_flow" /\ cmd \in {"SELECT", "UPDATE"} -> row.user_id = uid
      [] tbl = "debts_receivables" /\ cmd \in {"SELECT", "UPDATE", "DELETE"} -> row.user_id = uid
      [] OTHER -> FALSE

\* CREATE POLICY ... WITH CHECK: the rows a statement cmd of uid may write
PolicyWithCheck(tbl, cmd, row, uid) ==
    CASE tbl \in Tables /\ cmd \in {"INSERT", "UPDATE"} -> row.user_id = uid
      [] OTHER -> FALSE

DebtTypes == {"debt", "receivable"}

DebtStatuses == {"pending", "partial", "paid"}

\* the CHECK and REFERENCES constraints of CREATE TABLE
RowValid(d, tbl, row) ==
    CASE tbl = "categories" ->
            /\ row.user_id \in Users
            /\ row.type \in TxTypes
      [] tbl = "transactions" ->
            /\ row.user_id \in Users
            /\ row.category_id = NULL \/ row.category_id \in DOMAIN d.categories
            /\ row.type \in TxTypes
            /\ row.amount >= 0
      [] tbl = "cash_flow" ->
            row.user_id \in Users
      [] tbl = "debts_receivables" ->
            /\ row.user_id \in Users
            /\ row.type \in DebtTypes
            /\ row.amount >= 0
            /\ row.paid_amount >= 0
            /\ row.status \in DebtStatuses

\* table with row id put (or replaced)
WithRow(table, id, row) ==
    [i \in DOMAIN table \cup {id} |-> IF i = id THEN row ELSE table[i]]

WithoutRow(table, id) ==
    [i \in DOMAIN table \ {id} |-> table[i]]

\* the referential action ON DELETE CASCADE in the place of SET NULL
CascadeOnDelete(transactions, categoryId) ==
    [i \in { j \in DOMAIN transactions : transactions[j].category_id # categoryId } |->
        transactions[i]]

\* category_id ... REFERENCES categories(id) ON DELETE SET NULL
SetNullOnDelete(transactions, categoryId) ==
    [i \in DOMAIN transactions |->
        IF transactions[i].category_id = categoryId
        THEN [transactions[i] EXCEPT !.category_id = NULL]
        ELSE transactions[i]]

\* select * from tbl, as uid
StoreSelect(d, tbl, uid) ==
    { row \in RowsOf(d[tbl]) : PolicyUsing(tbl, "SELECT", row, uid) }

\* insert into tbl values (row), as uid, the row given the id `id`
StoreInsert(d, tbl, row, uid, id) ==
    LET new == [id |-> id] @@ row
    IN  IF PolicyWithCheck(tbl, "INSERT", new, uid) /\ RowValid(d, tbl, new)
        THEN [error |-> FALSE, db |-> [d EXCEPT ![tbl] = WithRow(@, id, new)]]
        ELSE [error |-> TRUE, db |-> d]

\* update tbl set patch where id = `id`, as uid: a row USING hides is not
\* matched; a new row that fails WITH CHECK or a constraint is an error
StoreUpdate(d, tbl, id, patch, uid) ==
    IF id \notin DOMAIN d[tbl] \/ ~PolicyUsing(tbl, "UPDATE", d[tbl][id], uid)
    THEN [error |-> FALSE, count |-> 0, db |-> d]
    ELSE LET new == patch @@ d[tbl][id]
         IN  IF PolicyWithCheck(tbl, "UPDATE", new, uid) /\ RowValid(d, tbl, new)
             THEN [error |-> FALSE, count |-> 1, db |-> [d EXCEPT ![tbl] = WithRow(@, id, new)]]
             ELSE [error |-> TRUE, count |-> 0, db |-> d]

\* delete from tbl where id = `id`, as uid
StoreDelete(d, tbl, id, uid) ==
    IF id \notin DOMAIN d[tbl] \/ ~PolicyUsing(tbl, "DELETE", d[tbl][id], uid)
    THEN [error |-> FALSE, count |-> 0, cascaded |-> {}, db |-> d]
    ELSE [error |-> FALSE, count |-> 1,
          cascaded |-> IF tbl = "categories"
                       THEN { t \in DOMAIN d.transactions : d.transactions[t].category_id = id }
                       ELSE {},
          db |-> IF tbl = "categories"
                 THEN [d EXCEPT !.categories = WithoutRow(@, id),
                                !.transactions = SetNullOnDelete(@, id)]
                 ELSE [d EXCEPT ![tbl] = WithoutRow(@, id)]]

\* select('*, categories(name)'): the row with its category joined, as uid sees it
JoinCategory(d, row, uid) ==
    IF row.category_id # NULL
       /\ row.category_id \in DOMAIN d.categories
       /\ PolicyUsing("categories", "SELECT", d.categories[row.category_id], uid)
    THEN [categories |-> Linked(d.categories[row.category_id].name)] @@ row
    ELSE [categories |-> NoCategory] @@ row

----------------------------------------------------------------------------
(* AuthProvider and AppContent *)

Emails == {"a@x.id", "b@x.id"}

FullNames == {"Ani", "Budi"}

\* businessName is optional: "" stands for undefined
BusinessNames == {"", "Toko Ani"}

\* useState<User | null>(null)
NoUser == [id |-> "", email |-> ""]

\* useState<Profile | null>(null)
NoProfile == [id |-> "", full_name |-> "", business_name |-> "", role |-> ""]

\* the menuItems of Sidebar
Pages == {"dashboard", "transactions", "categories", "debts", "reports", "analytics"}

\* what AppContent returns with no gate on user: the page of currentPage
\* whenever the provider is not loading
RenderedUngated ==
    IF authLoading THEN "spinner" ELSE currentPage

\* what AppContent returns: the spinner, one of the two forms, or the page of
\* currentPage
Rendered ==
    IF authLoading THEN "spinner"
    ELSE IF user = NoUser THEN (IF isLogin THEN "login" ELSE "register")
    ELSE currentPage

\* the application signed in by signIn and showing a page
AppShows(page) ==
    /\ user = [id |-> "1", email |-> "a@x.id"]
    /\ profile = NoProfile
    /\ authLoading = FALSE
    /\ isLogin = TRUE
    /\ currentPage = page
    /\ sidebarOpen = FALSE
    /\ lastConfirm = "none"

\* useState of filterType, dateFrom and dateTo; also the Clear Filters button
NoFilter ==
    [type |-> "all", dateFrom |-> NoDate, dateTo |-> NoDate]

\* TransactionForm while TransactionsPage does not render it
NoTxForm ==
    [type |-> "income", amount |-> "", categoryId |-> NULL, transactionDate |-> NoDate,
     categories |-> <<>>, loading |-> FALSE, error |-> ""]

\* useState of TransactionsPage
TransactionsPageUnmounted ==
    /\ txTransactions = <<>>
    /\ txFiltered = <<>>
    /\ txLoading = TRUE
    /\ txShowForm = FALSE
    /\ txEdit = NULL
    /\ txFilter = NoFilter
    /\ txForm = NoTxForm
    /\ txPending = <<>>

\* useState of formData of CategoriesPage, also set after a save
EmptyCategoryForm ==
    [name |-> "", type |-> "income"]

\* useState of CategoriesPage
CategoriesPageUnmounted ==
    /\ catCategories = <<>>
    /\ catLoading = TRUE
    /\ catShowForm = FALSE
    /\ catEdit = NULL
    /\ catFormData = EmptyCategoryForm
    /\ catError = ""
    /\ catPending = <<>>

CrudPagesUnmounted ==
    /\ TransactionsPageUnmounted
    /\ CategoriesPageUnmounted

\* useState of summary
EmptySummary ==
    [totalIncome |-> 0, totalExpense |-> 0, balance |-> 0, profitLoss |-> 0]

\* useState of DashboardPage
DashboardPageUnmounted ==
    /\ dashSummary = EmptySummary
    /\ dashRecent = <<>>
    /\ dashLoading = TRUE
    /\ dashPending = <<>>

\* useState of period, startDate and endDate of ReportsPage
ReportRangeUnset ==
    /\ rpPeriod = "month"
    /\ rpStartDate = NoDate
    /\ rpEndDate = NoDate
    /\ rpPending = <<>>

\* no file downloaded
NoFile == <<>>

LoadPagesUnmounted ==
    /\ DashboardPageUnmounted
    /\ ReportRangeUnset
    /\ csvContent = NoFile

----------------------------------------------------------------------------
(* ReportsPage *)

\* useState of reportData
EmptyReport ==
    [totalIncome |-> 0, totalExpense |-> 0, profitLoss |-> 0,
     transactionCount |-> 0, categoryBreakdown |-> <<>>]

\* the page before it is mounted: nothing requested, nothing shown
ReportsPageUnmounted ==
    /\ rpResponse = [error |-> TRUE, data |-> <<>>]
    /\ rpInFlight = FALSE
    /\ rpLoading = FALSE
    /\ reportData = EmptyReport

\* one callback of transactions.forEach on categoryMap, the amount assigned
\* to the entry found where the code adds it
BreakdownPutAssigns(map, t) ==
    LET categoryName == CategoryNameOf(t)
        at == { i \in 1..Len(map) : map[i].name = categoryName }
    IN  IF at # {}
        THEN [map EXCEPT ![CHOOSE i \in at : TRUE].total = t.amount]
        ELSE Append(map, [name |-> categoryName, type |-> t.type, total |-> t.amount])

\* one callback of transactions.forEach on categoryMap
BreakdownPut(map, t) ==
    LET categoryName == CategoryNameOf(t)
        at == { i \in 1..Len(map) : map[i].name = categoryName }
    IN  IF at # {}
        THEN [map EXCEPT ![CHOOSE i \in at : TRUE].total = @ + t.amount]
        ELSE Append(map, [name |-> categoryName, type |-> t.type, total |-> t.amount])

BreakdownMapOf(transactions) ==
    LET acc[n \in 0..Len(transactions)] ==
            IF n = 0 THEN <<>> ELSE BreakdownPut(acc[n - 1], transactions[n])
    IN  acc[Len(transactions)]

\* b.total - a.total < 0
TotalBefore(a, b) ==
    b.total < a.total

\* transactions.filter((t) => t.type === ty).reduce((sum, t) => sum + amount, 0) || 0
TotalOfType(transactions, ty) ==
    SumSeq([i \in 1..Len(transactions) |->
              IF transactions[i].type = ty THEN transactions[i].amount ELSE 0])

\* the value generateReport hands to setReportData
ReportOf(transactions) ==
    LET income == TotalOfType(transactions, "income")
        expense == TotalOfType(transactions, "expense")
    IN  [totalIncome |-> income,
         totalExpense |-> expense,
         profitLoss |-> income - expense,
         transactionCount |-> Len(transactions),
         categoryBreakdown |-> SortBy(BreakdownMapOf(transactions), TotalBefore)]

\* a / b * 100 in floating point: x / 0 is Infinity and 0 / 0 is NaN;
\* a finite result is kept as the fraction num / den
JsPercent(a, b) ==
    IF b # 0 THEN [kind |-> "finite", num |-> a * 100, den |-> b]
    ELSE IF a = 0 THEN [kind |-> "NaN", num |-> 0, den |-> 0]
    ELSE [kind |-> "Infinity", num |-> a, den |-> 0]

\* the percentage rendered for a breakdown entry
Percentage(item, report) ==
    IF item.type = "income" THEN JsPercent(item.total, report.totalIncome)
    ELSE JsPercent(item.total, report.totalExpense)

ReportAmounts == {0, 30, 100}

ReportCategories == {NoCategory, Linked("Sales"), Linked("Rent")}

ReportTx ==
    { [type |-> ty, amount |-> am, categories |-> c] :
        ty \in TxTypes, am \in ReportAmounts, c \in ReportCategories }

ReportInputs ==
    UNION { [1..n -> ReportTx] : n \in 0..MaxTx }

ReportResponses ==
    { [error |-> FALSE, data |-> s] : s \in ReportInputs }
    \cup { [error |-> TRUE, data |-> <<>>] }

InitReport ==
    /\ AppShows("reports")
    /\ CrudPagesUnmounted
    /\ LoadPagesUnmounted
    /\ tz = "utc"
    /\ anResponse = [error |-> TRUE, data |-> <<>>]
    /\ anLoading = FALSE
    /\ monthlyData = <<>>
    /\ categoryData = <<>>
    /\ rpResponse \in ReportResponses
    /\ rpInFlight = FALSE
    /\ rpLoading = FALSE
    /\ reportData = EmptyReport
    /\ StoreEmpty
    /\ DebtsPageUnmounted

\* generateReport up to its await
GenerateReport ==
    /\ ~rpInFlight
    /\ rpLoading' = TRUE
    /\ rpInFlight' = TRUE
    /\ UNCHANGED <<appVars, lastConfirm, crudVars, loadVars, anVars, rpResponse, reportData, storeVars, debtVars>>

\* generateReport from the response on, no error
GenerateReportOk ==
    /\ rpInFlight
    /\ ~rpResponse.error
    /\ reportData' = ReportOf(rpResponse.data)
    /\ rpLoading' = FALSE
    /\ rpInFlight' = FALSE
    /\ UNCHANGED <<appVars, lastConfirm, crudVars, loadVars, anVars, rpResponse, storeVars, debtVars>>

\* generateReport from the response on, the error thrown and caught
GenerateReportFailed ==
    /\ rpInFlight
    /\ rpResponse.error
    /\ rpLoading' = FALSE
    /\ rpInFlight' = FALSE
    /\ UNCHANGED <<appVars, lastConfirm, crudVars, loadVars, anVars, rpResponse, reportData, storeVars, debtVars>>

NextReport ==
    \/ GenerateReport
    \/ GenerateReportOk
    \/ GenerateReportFailed

SpecReport == InitReport /\ [][NextReport]_vars

----------------------------------------------------------------------------
(* The category breakdown over categories of any name *)

\* transactions of one response to generateReport
MaxRollupTx == 2

\* a transaction without a category, and with categories named by their
\* owner: any text the name column holds
RollupCategories == {NoCategory, Linked("Sales"), Linked("Uncategorized"), Linked("")}

RollupAmounts == {30, 100}

RollupTx ==
    { [type |-> ty, amount |-> am, categories |-> c] :
        ty \in TxTypes, am \in RollupAmounts, c \in RollupCategories }

RollupInputs ==
    UNION { [1..n -> RollupTx] : n \in 0..MaxRollupTx }

InitRollup ==
    /\ AppShows("reports")
    /\ CrudPagesUnmounted
    /\ LoadPagesUnmounted
    /\ tz = "utc"
    /\ anResponse = [error |-> TRUE, data |-> <<>>]
    /\ anLoading = FALSE
    /\ monthlyData = <<>>
    /\ categoryData = <<>>
    /\ rpResponse \in { [error |-> FALSE, data |-> s] : s \in RollupInputs }
                       \cup { [error |-> TRUE, data |-> <<>>] }
    /\ rpInFlight = FALSE
    /\ rpLoading = FALSE
    /\ reportData = EmptyReport
    /\ StoreEmpty
    /\ DebtsPageUnmounted

SpecRollup == InitRollup /\ [][NextReport]_vars

----------------------------------------------------------------------------
(* ReportsPage.exportToCSV *)

\* `${n}` and Array.prototype.join on a number: its decimal digits
NumberText(n) ==
    ToString(n)

\* the first line: `Financial Report (${startDate} to ${endDate})`
TitleLine(startDate, endDate) ==
    << [text |-> "Financial Report", from |-> startDate, to |-> endDate] >>

\* row.join(',') with the fields of a breakdown entry as name, total, type
CsvRowAmountFirst(item) ==
    <<item.name, NumberText(item.total), item.type>>

\* row.join(','): a line is the sequence of its comma-separated fields,
\* written as they are
CsvRow(item) ==
    <<item.name, item.type, NumberText(item.total)>>

\* csvContent before join('\n'): the lines of the file
CsvOf(report, startDate, endDate) ==
    << TitleLine(startDate, endDate),
       <<>>,
       <<"Total Income", NumberText(report.totalIncome)>>,
       <<"Total Expense", NumberText(report.totalExpense)>>,
       <<"Profit/Loss", NumberText(report.profitLoss)>>,
       <<"Total Transactions", NumberText(report.transactionCount)>>,
       <<>>,
       <<"Category", "Type", "Amount">> >>
    \o [i \in 1..Len(report.categoryBreakdown) |-> CsvRow(report.categoryBreakdown[i])]

\* ReportsPage showing the report of a month, nothing exported
InitExport ==
    /\ AppShows("reports")
    /\ CrudPagesUnmounted
    /\ DashboardPageUnmounted
    /\ rpPeriod = "month"
    /\ rpStartDate = <<2024, 2, 10>>
    /\ rpEndDate = <<2024, 3, 10>>
    /\ rpPending = <<>>
    /\ csvContent = NoFile
    /\ tz = "utc"
    /\ anResponse = [error |-> TRUE, data |-> <<>>]
    /\ anLoading = FALSE
    /\ monthlyData = <<>>
    /\ categoryData = <<>>
    /\ rpResponse \in { [error |-> FALSE, data |-> s] : s \in RollupInputs }
                       \cup { [error |-> TRUE, data |-> <<>>] }
    /\ rpInFlight = FALSE
    /\ rpLoading = FALSE
    /\ reportData = EmptyReport
    /\ StoreEmpty
    /\ DebtsPageUnmounted

\* the Export CSV button, disabled while the report counts no transaction
ExportToCSV ==
    /\ reportData.transactionCount # 0
    /\ csvContent' = CsvOf(reportData, rpStartDate, rpEndDate)
    /\ UNCHANGED <<appVars, lastConfirm, crudVars, rpPageVars, dashVars, anVars, rpVars,
                   storeVars, debtVars>>

NextExport ==
    \/ GenerateReport
    \/ GenerateReportOk
    \/ GenerateReportFailed
    \/ ExportToCSV

SpecExport == InitExport /\ [][NextExport]_vars

----------------------------------------------------------------------------
(* Statements sent to the data store by its callers *)

\* the category ids uid can have learnt: ids are gen_random_uuid() values,
\* and a select is the only way to read one
KnownCategories(d, uid) ==
    { row.id : row \in StoreSelect(d, "categories", uid) }

\* the rows a caller may try to insert, under its own or another user_id
ApiRows(d, tbl, uid) ==
    CASE tbl = "categories" ->
            { [user_id |-> o, name |-> "Sales", type |-> "income"] : o \in Users }
      [] tbl = "transactions" ->
            { [user_id |-> o, category_id |-> c, type |-> "income", amount |-> a,
               transaction_date |-> <<2024, 1, 5>>] :
                o \in Users, c \in KnownCategories(d, uid) \cup {NULL}, a \in {30} }
      [] tbl = "cash_flow" ->
            { [user_id |-> o, opening_balance |-> 0, period_start |-> <<2024, 1, 1>>] :
                o \in Users }
      [] tbl = "debts_receivables" ->
            { [user_id |-> o, type |-> "debt", amount |-> 1000, paid_amount |-> 0,
               due_date |-> <<2024, 1, 5>>, status |-> "pending"] : o \in Users }

\* the changes a caller may try on a row
ApiPatches(d, tbl, uid) ==
    { [user_id |-> o] : o \in Users }
    \cup CASE tbl = "categories" -> { [name |-> "Rent"] }
           [] tbl = "transactions" ->
                 { [amount |-> 40] }
                 \cup { [category_id |-> c] : c \in KnownCategories(d, uid) \cup {NULL} }
           [] tbl = "cash_flow" -> { [opening_balance |-> 5] }
           [] tbl = "debts_receivables" -> { [paid_amount |-> 1000, status |-> "paid"] }

InitStore ==
    /\ AppShows("dashboard")
    /\ CrudPagesUnmounted
    /\ LoadPagesUnmounted
    /\ tz = "utc"
    /\ anResponse = [error |-> TRUE, data |-> <<>>]
    /\ anLoading = FALSE
    /\ monthlyData = <<>>
    /\ categoryData = <<>>
    /\ ReportsPageUnmounted
    /\ StoreEmpty
    /\ DebtsPageUnmounted

ApiSelect(uid, tbl) ==
    /\ lastOp' = [NoOp EXCEPT !.caller = uid, !.table = tbl, !.op = "select",
                              !.rows = StoreSelect(db, tbl, uid)]
    /\ UNCHANGED <<appVars, lastConfirm, crudVars, loadVars, anVars, rpVars, debtVars, db, nextId>>

ApiInsert(uid, tbl) ==
    /\ nextId <= MaxIds
    /\ \E row \in ApiRows(db, tbl, uid) :
          LET res == StoreInsert(db, tbl, row, uid, nextId)
          IN  /\ db' = res.db
              /\ nextId' = IF res.error THEN nextId ELSE nextId + 1
              /\ lastOp' = [NoOp EXCEPT !.caller = uid, !.table = tbl, !.op = "insert",
                                        !.id = nextId, !.error = res.error,
                                        !.count = IF res.error THEN 0 ELSE 1]
    /\ UNCHANGED <<appVars, lastConfirm, crudVars, loadVars, anVars, rpVars, debtVars>>

ApiUpdate(uid, tbl) ==
    /\ \E id \in DOMAIN db[tbl], patch \in ApiPatches(db, tbl, uid) :
          LET res == StoreUpdate(db, tbl, id, patch, uid)
          IN  /\ db' = res.db
              /\ lastOp' = [NoOp EXCEPT !.caller = uid, !.table = tbl, !.op = "update",
                                        !.id = id, !.error = res.error, !.count = res.count]
    /\ UNCHANGED <<appVars, lastConfirm, crudVars, loadVars, anVars, rpVars, debtVars, nextId>>

ApiDelete(uid, tbl) ==
    /\ \E id \in DOMAIN db[tbl] :
          LET res == StoreDelete(db, tbl, id, uid)
          IN  /\ db' = res.db
              /\ lastOp' = [NoOp EXCEPT !.caller = uid, !.table = tbl, !.op = "delete",
                                        !.id = id, !.error = res.error, !.count = res.count,
                                        !.cascaded = res.cascaded]
    /\ UNCHANGED <<appVars, lastConfirm, crudVars, loadVars, anVars, rpVars, debtVars, nextId>>

NextStore ==
    \E uid \in Users, tbl \in Tables :
        \/ ApiSelect(uid, tbl)
        \/ ApiInsert(uid, tbl)
        \/ ApiUpdate(uid, tbl)
        \/ ApiDelete(uid, tbl)

SpecStore == InitStore /\ [][NextStore]_vars

----------------------------------------------------------------------------
(* AuthProvider and AppContent: the transitions *)

\* useState of AuthProvider and of AppContent; the effect of AuthProvider
\* sets loading to false, which it is
InitApp ==
    /\ tz = "utc"
    /\ anResponse = [error |-> TRUE, data |-> <<>>]
    /\ anLoading = FALSE
    /\ monthlyData = <<>>
    /\ categoryData = <<>>
    /\ ReportsPageUnmounted
    /\ StoreEmpty
    /\ DebtsPageUnmounted
    /\ CrudPagesUnmounted
    /\ LoadPagesUnmounted
    /\ user = NoUser
    /\ profile = NoProfile
    /\ authLoading = FALSE
    /\ isLogin = TRUE
    /\ currentPage = "dashboard"
    /\ sidebarOpen = FALSE
    /\ lastConfirm = "none"

\* onToggle of LoginForm and of RegisterForm
ToggleForm ==
    /\ Rendered \in {"login", "register"}
    /\ isLogin' = ~isLogin
    /\ UNCHANGED <<anVars, rpVars, storeVars, debtVars, lastConfirm, crudVars, loadVars,
                   user, profile, authLoading, currentPage, sidebarOpen>>

\* signIn(email, password), called by the sign-in form
SignIn ==
    /\ Rendered = "login"
    /\ \E email \in Emails :
          user' = [id |-> "1", email |-> email]
    /\ UNCHANGED <<anVars, rpVars, storeVars, debtVars, lastConfirm, crudVars, loadVars,
                   profile, authLoading, isLogin, currentPage, sidebarOpen>>

\* signUp(email, password, fullName, businessName), called by RegisterForm
SignUp ==
    /\ Rendered = "register"
    /\ \E email \in Emails, fullName \in FullNames, businessName \in BusinessNames :
          /\ user' = [id |-> "1", email |-> email]
          /\ profile' = [id |-> "1", full_name |-> fullName,
                         business_name |-> businessName, role |-> "user"]
    /\ UNCHANGED <<anVars, rpVars, storeVars, debtVars, lastConfirm, crudVars, loadVars,
                   authLoading, isLogin, currentPage, sidebarOpen>>

\* signOut(), called by the Sign Out button of Sidebar
SignOut ==
    /\ Rendered \in Pages
    /\ user' = NoUser
    /\ profile' = NoProfile
    /\ UNCHANGED <<anVars, rpVars, storeVars, debtVars, lastConfirm, crudVars, loadVars,
                   authLoading, isLogin, currentPage, sidebarOpen>>

\* a menu button of Sidebar: onNavigate(item.id), and onToggle() on a
\* narrow window
Navigate ==
    /\ Rendered \in Pages
    /\ \E page \in Pages, narrow \in BOOLEAN :
          /\ currentPage' = page
          /\ sidebarOpen' = IF narrow THEN ~sidebarOpen ELSE sidebarOpen
    /\ UNCHANGED <<anVars, rpVars, storeVars, debtVars, lastConfirm, crudVars, loadVars,
                   user, profile, authLoading, isLogin>>

\* the menu button and the backdrop of Sidebar: onToggle()
ToggleSidebar ==
    /\ Rendered \in Pages
    /\ sidebarOpen' = ~sidebarOpen
    /\ UNCHANGED <<anVars, rpVars, storeVars, debtVars, lastConfirm, crudVars, loadVars,
                   user, profile, authLoading, isLogin, currentPage>>

NextApp ==
    \/ ToggleForm
    \/ SignIn
    \/ SignUp
    \/ SignOut
    \/ Navigate
    \/ ToggleSidebar

SpecApp == InitApp /\ [][NextApp]_vars

----------------------------------------------------------------------------
(* DebtsPage *)

\* the identity useAuth() gives the pages, and the data store's auth.uid()
\* for their requests
CurrentUser == "1"

\* parseFloat of text that is no number
NaN == -1

Numerals == {0, 500, 1000}

\* parseFloat(text): '' is NaN
ParseFloat(text) ==
    IF text = "" THEN NaN ELSE CHOOSE n \in Numerals : ToString(n) = text

\* the status with > written where the code has >=
StatusOfStrict(paidAmount, totalAmount) ==
    IF paidAmount # NaN /\ totalAmount # NaN /\ paidAmount > totalAmount THEN "paid"
    ELSE IF paidAmount # NaN /\ paidAmount > 0 THEN "partial"
    ELSE "pending"

\* handleSubmit: let status = 'pending'; if (paidAmount >= totalAmount) ...
\* (a comparison with NaN is false)
StatusOf(paidAmount, totalAmount) ==
    IF paidAmount # NaN /\ totalAmount # NaN /\ paidAmount >= totalAmount THEN "paid"
    ELSE IF paidAmount # NaN /\ paidAmount > 0 THEN "partial"
    ELSE "pending"

\* handleSubmit: itemData
ItemDataOf(formData) ==
    LET parsedPaid == ParseFloat(formData.paid_amount)
        paidAmount == IF parsedPaid = NaN \/ parsedPaid = 0 THEN 0 ELSE parsedPaid
        totalAmount == ParseFloat(formData.amount)
    IN  [user_id |-> CurrentUser,
         type |-> formData.type,
         amount |-> totalAmount,
         paid_amount |-> paidAmount,
         due_date |-> formData.due_date,
         status |-> StatusOf(paidAmount, totalAmount)]

\* the form's required, type="number" and min="0" attributes: the browser
\* submits only when they hold
FormValid(formData) ==
    /\ formData.amount # ""
    /\ ParseFloat(formData.amount) >= 0
    /\ formData.paid_amount = "" \/ ParseFloat(formData.paid_amount) >= 0
    /\ formData.due_date # NoDate

\* handleEdit: formData of an item
FormOf(item) ==
    [type |-> item.type,
     amount |-> ToString(item.amount),
     paid_amount |-> ToString(item.paid_amount),
     due_date |-> item.due_date]

\* the rows of a set in the order of their ids
RowsById(rows) ==
    LET ids == { r.id : r \in rows }
        last == IF ids = {} THEN 0 ELSE CHOOSE m \in ids : \A k \in ids : k <= m
        acc[k \in 0..last] ==
            IF k = 0 THEN <<>>
            ELSE IF k \in ids
                 THEN Append(acc[k - 1], CHOOSE r \in rows : r.id = k)
                 ELSE acc[k - 1]
    IN  acc[last]

DueBefore(a, b) ==
    LexLess(a.due_date, b.due_date)

\* from('debts_receivables').select('*').order('due_date', { ascending: true })
SelectDebts(d, uid) ==
    SortBy(RowsById(StoreSelect(d, "debts_receivables", uid)), DueBefore)

RemoveAt(s, i) ==
    SubSeq(s, 1, i - 1) \o SubSeq(s, i + 1, Len(s))

\* inserts in flight
PendingCreates ==
    Len(SelectSeq(debtPending, LAMBDA r : r.kind = "submit" /\ r.id = NULL))

\* the remaining amount rendered for an item
Remaining(item) ==
    item.amount - item.paid_amount

\* the progress rendered for an item: paid_amount / amount * 100
Progress(item) ==
    JsPercent(item.paid_amount, item.amount)

\* isOverdue(dueDate, status): new Date(dueDate) < new Date() && status !== 'paid'
IsOverdue(dueDate, status, instant, zone) ==
    InstantBefore(UtcMidnight(dueDate), instant) /\ status # "paid"

\* what a user types into the amount, paid amount and due date inputs
FormEntries ==
    { [amount |-> "0", paid_amount |-> "", due_date |-> <<2024, 3, 11>>],
      [amount |-> "1000", paid_amount |-> "", due_date |-> <<2024, 3, 9>>],
      [amount |-> "1000", paid_amount |-> "500", due_date |-> <<2024, 3, 11>>],
      [amount |-> "1000", paid_amount |-> "1000", due_date |-> <<2024, 3, 9>>] }

InitDebts ==
    /\ AppShows("debts")
    /\ CrudPagesUnmounted
    /\ LoadPagesUnmounted
    /\ tz = "utc"
    /\ anResponse = [error |-> TRUE, data |-> <<>>]
    /\ anLoading = FALSE
    /\ monthlyData = <<>>
    /\ categoryData = <<>>
    /\ ReportsPageUnmounted
    /\ StoreEmpty
    /\ now = [date |-> <<2024, 3, 10>>, tick |-> 1]
    /\ debtItems = <<>>
    /\ debtLoading = TRUE
    /\ debtShowForm = FALSE
    /\ debtEditItem = NULL
    /\ debtFormData = EmptyForm
    /\ debtError = ""
    /\ debtPending = << [kind |-> "load"] >>

\* loadItems from the response on, no error
LoadItemsOk ==
    /\ \E i \in 1..Len(debtPending) :
          /\ debtPending[i].kind = "load"
          /\ debtPending' = RemoveAt(debtPending, i)
    /\ debtItems' = SelectDebts(db, CurrentUser)
    /\ debtLoading' = FALSE
    /\ UNCHANGED <<appVars, lastConfirm, crudVars, loadVars, anVars, rpVars, storeVars, now, debtShowForm, debtEditItem,
                   debtFormData, debtError>>

\* loadItems from the response on, the error thrown and caught
LoadItemsFailed ==
    /\ \E i \in 1..Len(debtPending) :
          /\ debtPending[i].kind = "load"
          /\ debtPending' = RemoveAt(debtPending, i)
    /\ debtLoading' = FALSE
    /\ UNCHANGED <<appVars, lastConfirm, crudVars, loadVars, anVars, rpVars, storeVars, now, debtItems, debtShowForm, debtEditItem,
                   debtFormData, debtError>>

\* the Add New button
AddNew ==
    /\ ~debtLoading
    /\ ~debtShowForm
    /\ debtEditItem' = NULL
    /\ debtFormData' = EmptyForm
    /\ debtShowForm' = TRUE
    /\ UNCHANGED <<appVars, lastConfirm, crudVars, loadVars, anVars, rpVars, storeVars, now, debtItems, debtLoading, debtError,
                   debtPending>>

\* handleEdit(item)
HandleEdit ==
    /\ ~debtLoading
    /\ ~debtShowForm
    /\ \E i \in 1..Len(debtItems) :
          /\ debtEditItem' = debtItems[i].id
          /\ debtFormData' = FormOf(debtItems[i])
    /\ debtShowForm' = TRUE
    /\ UNCHANGED <<appVars, lastConfirm, crudVars, loadVars, anVars, rpVars, storeVars, now, debtItems, debtLoading, debtError,
                   debtPending>>

\* the onChange handlers of the amount, paid amount and due date inputs
ChangeForm ==
    /\ debtShowForm
    /\ \E entry \in FormEntries :
          debtFormData' = [debtFormData EXCEPT !.amount = entry.amount,
                                               !.paid_amount = entry.paid_amount,
                                               !.due_date = entry.due_date]
    /\ UNCHANGED <<appVars, lastConfirm, crudVars, loadVars, anVars, rpVars, storeVars, now, debtItems, debtLoading, debtShowForm,
                   debtEditItem, debtError, debtPending>>

\* the Cancel button
CancelForm ==
    /\ debtShowForm
    /\ debtShowForm' = FALSE
    /\ debtEditItem' = NULL
    /\ debtFormData' = EmptyForm
    /\ UNCHANGED <<appVars, lastConfirm, crudVars, loadVars, anVars, rpVars, storeVars, now, debtItems, debtLoading, debtError,
                   debtPending>>

\* handleSubmit up to its await
HandleSubmit ==
    /\ debtShowForm
    /\ FormValid(debtFormData)
    /\ Len(debtPending) < MaxPending
    /\ debtEditItem = NULL => nextId + PendingCreates <= MaxDebts
    /\ debtError' = ""
    /\ debtPending' = Append(debtPending,
                             [kind |-> "submit", id |-> debtEditItem,
                              itemData |-> ItemDataOf(debtFormData)])
    /\ UNCHANGED <<appVars, lastConfirm, crudVars, loadVars, anVars, rpVars, storeVars, now, debtItems, debtLoading, debtShowForm,
                   debtEditItem, debtFormData>>

\* handleSubmit from the response on: the update or insert as the data store
\* ran it, then the form closed and loadItems called, or the error shown
SubmitAnswered ==
    \E i \in 1..Len(debtPending) :
        /\ debtPending[i].kind = "submit"
        /\ LET req == debtPending[i]
               res == IF req.id # NULL
                      THEN StoreUpdate(db, "debts_receivables", req.id, req.itemData, CurrentUser)
                      ELSE StoreInsert(db, "debts_receivables", req.itemData, CurrentUser, nextId)
           IN  /\ db' = res.db
               /\ nextId' = IF req.id = NULL /\ ~res.error THEN nextId + 1 ELSE nextId
               /\ IF res.error
                  THEN /\ debtError' = "Failed to save item"
                       /\ debtPending' = RemoveAt(debtPending, i)
                       /\ UNCHANGED <<debtShowForm, debtEditItem, debtFormData>>
                  ELSE /\ debtShowForm' = FALSE
                       /\ debtEditItem' = NULL
                       /\ debtFormData' = EmptyForm
                       /\ debtPending' = Append(RemoveAt(debtPending, i), [kind |-> "load"])
                       /\ UNCHANGED debtError
        /\ UNCHANGED <<appVars, lastConfirm, crudVars, loadVars, anVars, rpVars, lastOp, now, debtItems, debtLoading>>

\* handleSubmit from the response on, the request lost: the error shown
SubmitFailed ==
    /\ \E i \in 1..Len(debtPending) :
          /\ debtPending[i].kind = "submit"
          /\ debtPending' = RemoveAt(debtPending, i)
    /\ debtError' = "Failed to save item"
    /\ UNCHANGED <<appVars, lastConfirm, crudVars, loadVars, anVars, rpVars, storeVars, now, debtItems, debtLoading, debtShowForm,
                   debtEditItem, debtFormData>>

\* handleDelete(id), the confirm dialog declined: the handler returns
DeclineDelete ==
    /\ ~debtLoading
    /\ ~debtShowForm
    /\ debtItems # <<>>
    /\ lastConfirm' = "declined"
    /\ UNCHANGED <<appVars, crudVars, loadVars, anVars, rpVars, storeVars, debtVars>>

\* handleDelete(id) up to its await, the confirm dialog accepted
HandleDelete ==
    /\ ~debtLoading
    /\ ~debtShowForm
    /\ Len(debtPending) < MaxPending
    /\ lastConfirm' = "accepted"
    /\ \E i \in 1..Len(debtItems) :
          debtPending' = Append(debtPending, [kind |-> "delete", id |-> debtItems[i].id])
    /\ UNCHANGED <<appVars, crudVars, loadVars, anVars, rpVars, storeVars, now, debtItems,
                   debtLoading, debtShowForm, debtEditItem, debtFormData, debtError>>

\* handleDelete from the response on, no error: loadItems called
DeleteAnswered ==
    \E i \in 1..Len(debtPending) :
        /\ debtPending[i].kind = "delete"
        /\ db' = StoreDelete(db, "debts_receivables", debtPending[i].id, CurrentUser).db
        /\ debtPending' = Append(RemoveAt(debtPending, i), [kind |-> "load"])
        /\ UNCHANGED <<appVars, lastConfirm, crudVars, loadVars, anVars, rpVars, nextId, lastOp, now, debtItems, debtLoading,
                       debtShowForm, debtEditItem, debtFormData, debtError>>

\* handleDelete from the response on, the error thrown and caught
DeleteFailed ==
    /\ \E i \in 1..Len(debtPending) :
          /\ debtPending[i].kind = "delete"
          /\ debtPending' = RemoveAt(debtPending, i)
    /\ UNCHANGED <<appVars, lastConfirm, crudVars, loadVars, anVars, rpVars, storeVars, now, debtItems, debtLoading, debtShowForm,
                   debtEditItem, debtFormData, debtError>>

NextDebts ==
    \/ LoadItemsOk
    \/ LoadItemsFailed
    \/ AddNew
    \/ HandleEdit
    \/ ChangeForm
    \/ CancelForm
    \/ HandleSubmit
    \/ SubmitAnswered
    \/ SubmitFailed
    \/ HandleDelete
    \/ DeleteAnswered
    \/ DeleteFailed

SpecDebts == InitDebts /\ [][NextDebts]_vars

----------------------------------------------------------------------------
(* CategoriesPage *)

\* what a user types into the name input
CategoryNames == {"Rent", "Sales"}

\* the place of a category name, and of a type, in the order of the data
\* store's text comparison
TextRank(text) ==
    CASE text = "Rent" -> 1
      [] text = "Sales" -> 2
      [] text = "expense" -> 1
      [] text = "income" -> 2
      [] OTHER -> 0

NameBefore(a, b) ==
    TextRank(a.name) < TextRank(b.name)

TypeBefore(a, b) ==
    TextRank(a.type) < TextRank(b.type)

\* from('categories').select('*').order('type').order('name')
SelectCategories(d, uid) ==
    SortBy(SortBy(RowsById(StoreSelect(d, "categories", uid)), NameBefore), TypeBefore)

\* inserts of CategoriesPage in flight
PendingCategoryCreates ==
    Len(SelectSeq(catPending, LAMBDA r : r.kind = "submit" /\ r.id = NULL))

\* loadCategories from the response on, no error
LoadCategoriesOk ==
    /\ \E i \in 1..Len(catPending) :
          /\ catPending[i].kind = "load"
          /\ catPending' = RemoveAt(catPending, i)
    /\ catCategories' = SelectCategories(db, CurrentUser)
    /\ catLoading' = FALSE
    /\ UNCHANGED <<appVars, lastConfirm, anVars, rpVars, storeVars, debtVars, txVars, loadVars,
                   catShowForm, catEdit, catFormData, catError>>

\* loadCategories from the response on, the error thrown and caught
LoadCategoriesFailed ==
    /\ \E i \in 1..Len(catPending) :
          /\ catPending[i].kind = "load"
          /\ catPending' = RemoveAt(catPending, i)
    /\ catLoading' = FALSE
    /\ UNCHANGED <<appVars, lastConfirm, anVars, rpVars, storeVars, debtVars, txVars, loadVars,
                   catCategories, catShowForm, catEdit, catFormData, catError>>

\* the Add Category button
AddCategory ==
    /\ ~catLoading
    /\ ~catShowForm
    /\ catEdit' = NULL
    /\ catFormData' = EmptyCategoryForm
    /\ catShowForm' = TRUE
    /\ UNCHANGED <<appVars, lastConfirm, anVars, rpVars, storeVars, debtVars, txVars, loadVars,
                   catCategories, catLoading, catError, catPending>>

\* handleEdit(category)
HandleEditCategory ==
    /\ ~catLoading
    /\ ~catShowForm
    /\ \E i \in 1..Len(catCategories) :
          /\ catEdit' = catCategories[i].id
          /\ catFormData' = [name |-> catCategories[i].name, type |-> catCategories[i].type]
    /\ catShowForm' = TRUE
    /\ UNCHANGED <<appVars, lastConfirm, anVars, rpVars, storeVars, debtVars, txVars, loadVars,
                   catCategories, catLoading, catError, catPending>>

\* the onChange handler of the name input and the two type buttons
ChangeCategoryForm ==
    /\ catShowForm
    /\ \/ \E name \in CategoryNames : catFormData' = [catFormData EXCEPT !.name = name]
       \/ \E type \in TxTypes : catFormData' = [catFormData EXCEPT !.type = type]
    /\ UNCHANGED <<appVars, lastConfirm, anVars, rpVars, storeVars, debtVars, txVars, loadVars,
                   catCategories, catLoading, catShowForm, catEdit, catError, catPending>>

\* the Cancel button
CancelCategoryForm ==
    /\ catShowForm
    /\ catShowForm' = FALSE
    /\ catEdit' = NULL
    /\ catFormData' = EmptyCategoryForm
    /\ UNCHANGED <<appVars, lastConfirm, anVars, rpVars, storeVars, debtVars, txVars, loadVars,
                   catCategories, catLoading, catError, catPending>>

\* handleSubmit up to its await; the name input is required
HandleSubmitCategory ==
    /\ catShowForm
    /\ catFormData.name # ""
    /\ Len(catPending) < MaxCategorySubmits
    /\ catEdit = NULL => nextId + PendingCategoryCreates <= MaxCategories
    /\ catError' = ""
    /\ catPending' = Append(catPending,
                            [kind |-> "submit", id |-> catEdit,
                             data |-> IF catEdit # NULL
                                      THEN [name |-> catFormData.name,
                                            type |-> catFormData.type]
                                      ELSE [user_id |-> CurrentUser,
                                            name |-> catFormData.name,
                                            type |-> catFormData.type]])
    /\ UNCHANGED <<appVars, lastConfirm, anVars, rpVars, storeVars, debtVars, txVars, loadVars,
                   catCategories, catLoading, catShowForm, catEdit, catFormData>>

\* handleSubmit from the response on: the update or insert as the data store
\* ran it, then the form closed and loadCategories called, or the error shown
CategorySubmitAnswered ==
    \E i \in 1..Len(catPending) :
        /\ catPending[i].kind = "submit"
        /\ LET req == catPending[i]
               res == IF req.id # NULL
                      THEN StoreUpdate(db, "categories", req.id, req.data, CurrentUser)
                      ELSE StoreInsert(db, "categories", req.data, CurrentUser, nextId)
           IN  /\ db' = res.db
               /\ nextId' = IF req.id = NULL /\ ~res.error THEN nextId + 1 ELSE nextId
               /\ IF res.error
                  THEN /\ catError' = "Failed to save category"
                       /\ catPending' = RemoveAt(catPending, i)
                       /\ UNCHANGED <<catShowForm, catEdit, catFormData>>
                  ELSE /\ catShowForm' = FALSE
                       /\ catEdit' = NULL
                       /\ catFormData' = EmptyCategoryForm
                       /\ catPending' = Append(RemoveAt(catPending, i), [kind |-> "load"])
                       /\ UNCHANGED catError
        /\ UNCHANGED <<appVars, lastConfirm, anVars, rpVars, debtVars, txVars, loadVars,
                       lastOp, catCategories, catLoading>>

\* handleSubmit from the response on, the request lost, with the catch block
\* closing the form as the success path does
CategorySubmitFailedCloses ==
    /\ \E i \in 1..Len(catPending) :
          /\ catPending[i].kind = "submit"
          /\ catPending' = RemoveAt(catPending, i)
    /\ catError' = "Failed to save category"
    /\ catShowForm' = FALSE
    /\ catEdit' = NULL
    /\ catFormData' = EmptyCategoryForm
    /\ UNCHANGED <<appVars, lastConfirm, anVars, rpVars, storeVars, debtVars, txVars, loadVars,
                   catCategories, catLoading>>

\* handleSubmit from the response on, the request lost: the error shown
CategorySubmitFailed ==
    /\ \E i \in 1..Len(catPending) :
          /\ catPending[i].kind = "submit"
          /\ catPending' = RemoveAt(catPending, i)
    /\ catError' = "Failed to save category"
    /\ UNCHANGED <<appVars, lastConfirm, anVars, rpVars, storeVars, debtVars, txVars, loadVars,
                   catCategories, catLoading, catShowForm, catEdit, catFormData>>

\* handleDelete(id) with the test of confirm() left out: the request is sent
\* whatever the dialog returns
DeclineDeleteCategorySends ==
    /\ ~catLoading
    /\ ~catShowForm
    /\ Len(catPending) < MaxPending
    /\ lastConfirm' = "declined"
    /\ \E i \in 1..Len(catCategories) :
          catPending' = Append(catPending, [kind |-> "delete", id |-> catCategories[i].id])
    /\ UNCHANGED <<appVars, anVars, rpVars, storeVars, debtVars, txVars, loadVars,
                   catCategories, catLoading, catShowForm, catEdit, catFormData, catError>>

\* handleDelete(id), the confirm dialog declined: the handler returns
DeclineDeleteCategory ==
    /\ ~catLoading
    /\ ~catShowForm
    /\ catCategories # <<>>
    /\ lastConfirm' = "declined"
    /\ UNCHANGED <<appVars, anVars, rpVars, storeVars, debtVars, txVars, loadVars, catVars>>

\* handleDelete(id) up to its await, the confirm dialog accepted
HandleDeleteCategory ==
    /\ ~catLoading
    /\ ~catShowForm
    /\ Len(catPending) < MaxPending
    /\ lastConfirm' = "accepted"
    /\ \E i \in 1..Len(catCategories) :
          catPending' = Append(catPending, [kind |-> "delete", id |-> catCategories[i].id])
    /\ UNCHANGED <<appVars, anVars, rpVars, storeVars, debtVars, txVars, loadVars,
                   catCategories, catLoading, catShowForm, catEdit, catFormData, catError>>

\* handleDelete from the response on, no error: loadCategories called
CategoryDeleteAnswered ==
    \E i \in 1..Len(catPending) :
        /\ catPending[i].kind = "delete"
        /\ db' = StoreDelete(db, "categories", catPending[i].id, CurrentUser).db
        /\ catPending' = Append(RemoveAt(catPending, i), [kind |-> "load"])
        /\ UNCHANGED <<appVars, lastConfirm, anVars, rpVars, debtVars, txVars, loadVars,
                       nextId, lastOp, catCategories, catLoading, catShowForm, catEdit,
                       catFormData, catError>>

\* handleDelete from the response on, the error thrown and caught
CategoryDeleteFailed ==
    /\ \E i \in 1..Len(catPending) :
          /\ catPending[i].kind = "delete"
          /\ catPending' = RemoveAt(catPending, i)
    /\ UNCHANGED <<appVars, lastConfirm, anVars, rpVars, storeVars, debtVars, txVars, loadVars,
                   catCategories, catLoading, catShowForm, catEdit, catFormData, catError>>

NextCategories ==
    \/ LoadCategoriesOk
    \/ LoadCategoriesFailed
    \/ AddCategory
    \/ HandleEditCategory
    \/ ChangeCategoryForm
    \/ CancelCategoryForm
    \/ HandleSubmitCategory
    \/ CategorySubmitAnswered
    \/ CategorySubmitFailed
    \/ HandleDeleteCategory
    \/ CategoryDeleteAnswered
    \/ CategoryDeleteFailed

----------------------------------------------------------------------------
(* TransactionsPage and TransactionForm *)

\* what a user types into the amount input
TxFormAmounts == {"1000"}

\* what a user picks in the date inputs
TxFormDates == {<<2024, 3, 9>>}

\* what a user picks in the From Date and To Date inputs of the filters
TxFilterDates == {<<2024, 3, 3>>, <<2024, 3, 10>>}

DateAfter(a, b) ==
    LexLess(b.transaction_date, a.transaction_date)

\* from('transactions').select('*').order('transaction_date', { ascending: false })
SelectTransactions(d, uid) ==
    SortBy(RowsById(StoreSelect(d, "transactions", uid)), DateAfter)

\* from('categories').select('*').eq('type', type).order('name')
SelectCategoriesOfType(d, uid, type) ==
    SortBy(RowsById({ row \in StoreSelect(d, "categories", uid) : row.type = type }),
           NameBefore)

\* applyFilters with t.transaction_date < dateTo where the code has <=
ApplyFiltersBeforeTo(transactions, filter) ==
    LET byType == SelectSeq(transactions,
                            LAMBDA t : filter.type = "all" \/ t.type = filter.type)
        byFrom == SelectSeq(byType,
                            LAMBDA t : filter.dateFrom = NoDate
                                       \/ DateLeq(filter.dateFrom, t.transaction_date))
    IN  SelectSeq(byFrom,
                  LAMBDA t : filter.dateTo = NoDate
                             \/ LexLess(t.transaction_date, filter.dateTo))

\* applyFilters: the value handed to setFilteredTransactions
ApplyFilters(transactions, filter) ==
    LET byType == SelectSeq(transactions,
                            LAMBDA t : filter.type = "all" \/ t.type = filter.type)
        byFrom == SelectSeq(byType,
                            LAMBDA t : filter.dateFrom = NoDate
                                       \/ DateLeq(filter.dateFrom, t.transaction_date))
    IN  SelectSeq(byFrom,
                  LAMBDA t : filter.dateTo = NoDate
                             \/ DateLeq(t.transaction_date, filter.dateTo))

\* getTotalIncome over filteredTransactions
GetTotalIncome(filtered) ==
    SumSeq([i \in 1..Len(filtered) |->
              IF filtered[i].type = "income" THEN filtered[i].amount ELSE 0])

\* getTotalExpense over filteredTransactions
GetTotalExpense(filtered) ==
    SumSeq([i \in 1..Len(filtered) |->
              IF filtered[i].type = "expense" THEN filtered[i].amount ELSE 0])

\* the Net Balance card: getTotalIncome() - getTotalExpense()
NetBalance(filtered) ==
    GetTotalIncome(filtered) - GetTotalExpense(filtered)

\* useState of TransactionForm, mounted to create a transaction
NewTxForm ==
    [type |-> "income", amount |-> "", categoryId |-> NULL,
     transactionDate |-> now.date, categories |-> <<>>, loading |-> FALSE, error |-> ""]

\* useState of TransactionForm, mounted with editTransaction
EditTxForm(t) ==
    [type |-> t.type,
     amount |-> IF t.amount = 0 THEN "" ELSE ToString(t.amount),
     categoryId |-> t.category_id,
     transactionDate |-> t.transaction_date,
     categories |-> <<>>, loading |-> FALSE, error |-> ""]

\* handleSubmit: transactionData
TransactionDataOf(form) ==
    [user_id |-> CurrentUser,
     type |-> form.type,
     amount |-> ParseFloat(form.amount),
     category_id |-> form.categoryId,
     transaction_date |-> form.transactionDate]

\* the amount and date inputs' required and min="0" attributes
TxFormValid(form) ==
    /\ form.amount # ""
    /\ ParseFloat(form.amount) >= 0
    /\ form.transactionDate # NoDate

\* the requests of a TransactionForm that is unmounted: what loadCategories
\* sets is lost, a submit goes on without a form to report to
Orphaned(pending) ==
    LET kept == SelectSeq(pending, LAMBDA r : r.kind # "categories")
    IN  [i \in 1..Len(kept) |->
            IF kept[i].kind = "submit" THEN [kept[i] EXCEPT !.orphan = TRUE] ELSE kept[i]]

\* inserts of TransactionForm in flight
PendingTxCreates ==
    Len(SelectSeq(txPending, LAMBDA r : r.kind = "submit" /\ r.id = NULL))

\* loadTransactions from the response on, no error; applyFilters runs as the
\* effect of the new transactions
LoadTransactionsOk ==
    /\ \E i \in 1..Len(txPending) :
          /\ txPending[i].kind = "load"
          /\ txPending' = RemoveAt(txPending, i)
    /\ txTransactions' = SelectTransactions(db, CurrentUser)
    /\ txFiltered' = ApplyFilters(txTransactions', txFilter)
    /\ txLoading' = FALSE
    /\ UNCHANGED <<appVars, lastConfirm, anVars, rpVars, storeVars, debtVars, catVars, loadVars,
                   txShowForm, txEdit, txFilter, txForm>>

\* loadTransactions from the response on, the error thrown and caught
LoadTransactionsFailed ==
    /\ \E i \in 1..Len(txPending) :
          /\ txPending[i].kind = "load"
          /\ txPending' = RemoveAt(txPending, i)
    /\ txLoading' = FALSE
    /\ UNCHANGED <<appVars, lastConfirm, anVars, rpVars, storeVars, debtVars, catVars, loadVars,
                   txTransactions, txFiltered, txShowForm, txEdit, txFilter, txForm>>

\* the New Transaction button: TransactionForm mounts and its effect calls
\* loadCategories
NewTransaction ==
    /\ ~txLoading
    /\ ~txShowForm
    /\ Len(txPending) < MaxPending
    /\ txEdit' = NULL
    /\ txShowForm' = TRUE
    /\ txForm' = NewTxForm
    /\ txPending' = Append(txPending, [kind |-> "categories", type |-> NewTxForm.type])
    /\ UNCHANGED <<appVars, lastConfirm, anVars, rpVars, storeVars, debtVars, catVars, loadVars,
                   txTransactions, txFiltered, txLoading, txFilter>>

\* the Edit button of a row: TransactionForm mounts with editTransaction
EditTransaction ==
    /\ ~txLoading
    /\ ~txShowForm
    /\ Len(txPending) < MaxPending
    /\ \E i \in 1..Len(txFiltered) :
          /\ txEdit' = txFiltered[i].id
          /\ txForm' = EditTxForm(txFiltered[i])
          /\ txPending' = Append(txPending,
                                 [kind |-> "categories", type |-> txFiltered[i].type])
    /\ txShowForm' = TRUE
    /\ UNCHANGED <<appVars, lastConfirm, anVars, rpVars, storeVars, debtVars, catVars, loadVars,
                   txTransactions, txFiltered, txLoading, txFilter>>

\* the Income and Expense buttons: setType, and loadCategories as the effect
\* of the new type
SetType ==
    /\ txShowForm
    /\ Len(txPending) < MaxPending
    /\ \E type \in TxTypes :
          /\ type # txForm.type
          /\ txForm' = [txForm EXCEPT !.type = type]
          /\ txPending' = Append(txPending, [kind |-> "categories", type |-> type])
    /\ UNCHANGED <<appVars, lastConfirm, anVars, rpVars, storeVars, debtVars, catVars, loadVars,
                   txTransactions, txFiltered, txLoading, txShowForm, txEdit, txFilter>>

\* the onChange handlers of the amount, category and date inputs
ChangeTxForm ==
    /\ txShowForm
    /\ \/ \E amount \in TxFormAmounts : txForm' = [txForm EXCEPT !.amount = amount]
       \/ \E i \in 1..Len(txForm.categories) :
             txForm' = [txForm EXCEPT !.categoryId = txForm.categories[i].id]
       \/ txForm' = [txForm EXCEPT !.categoryId = NULL]
       \/ \E date \in TxFormDates : txForm' = [txForm EXCEPT !.transactionDate = date]
    /\ UNCHANGED <<appVars, lastConfirm, anVars, rpVars, storeVars, debtVars, catVars, loadVars,
                   txTransactions, txFiltered, txLoading, txShowForm, txEdit, txFilter,
                   txPending>>

\* onClose, from the X and Cancel buttons: TransactionForm unmounts
CloseTransactionForm ==
    /\ txShowForm
    /\ txShowForm' = FALSE
    /\ txEdit' = NULL
    /\ txForm' = NoTxForm
    /\ txPending' = Orphaned(txPending)
    /\ UNCHANGED <<appVars, lastConfirm, anVars, rpVars, storeVars, debtVars, catVars, loadVars,
                   txTransactions, txFiltered, txLoading, txFilter>>

\* loadCategories of TransactionForm from the response on, no error
LoadFormCategoriesOk ==
    /\ \E i \in 1..Len(txPending) :
          /\ txPending[i].kind = "categories"
          /\ txPending' = RemoveAt(txPending, i)
          /\ txForm' = [txForm EXCEPT !.categories =
                           SelectCategoriesOfType(db, CurrentUser, txPending[i].type)]
    /\ UNCHANGED <<appVars, lastConfirm, anVars, rpVars, storeVars, debtVars, catVars, loadVars,
                   txTransactions, txFiltered, txLoading, txShowForm, txEdit, txFilter>>

\* loadCategories of TransactionForm from the response on, the error thrown
\* and caught
LoadFormCategoriesFailed ==
    /\ \E i \in 1..Len(txPending) :
          /\ txPending[i].kind = "categories"
          /\ txPending' = RemoveAt(txPending, i)
    /\ UNCHANGED <<appVars, lastConfirm, anVars, rpVars, storeVars, debtVars, catVars, loadVars,
                   txTransactions, txFiltered, txLoading, txShowForm, txEdit, txFilter,
                   txForm>>

\* handleSubmit of TransactionForm up to its await; the submit button is
\* disabled while loading
HandleSubmitTransaction ==
    /\ txShowForm
    /\ ~txForm.loading
    /\ TxFormValid(txForm)
    /\ Len(txPending) < MaxPending
    /\ txEdit = NULL =>
          nextId + PendingTxCreates <= Cardinality(DOMAIN db.categories) + MaxTransactions
    /\ txForm' = [txForm EXCEPT !.error = "", !.loading = TRUE]
    /\ txPending' = Append(txPending,
                           [kind |-> "submit", id |-> txEdit, orphan |-> FALSE,
                            data |-> TransactionDataOf(txForm)])
    /\ UNCHANGED <<appVars, lastConfirm, anVars, rpVars, storeVars, debtVars, catVars, loadVars,
                   txTransactions, txFiltered, txLoading, txShowForm, txEdit, txFilter>>

\* handleSubmit from the response on: the update or insert as the data store
\* ran it, then onSuccess (loadTransactions) and onClose, or the error shown
\* by the form that sent it
TransactionSubmitAnswered ==
    \E i \in 1..Len(txPending) :
        /\ txPending[i].kind = "submit"
        /\ LET req == txPending[i]
               rest == RemoveAt(txPending, i)
               res == IF req.id # NULL
                      THEN StoreUpdate(db, "transactions", req.id, req.data, CurrentUser)
                      ELSE StoreInsert(db, "transactions", req.data, CurrentUser, nextId)
           IN  /\ db' = res.db
               /\ nextId' = IF req.id = NULL /\ ~res.error THEN nextId + 1 ELSE nextId
               /\ IF res.error
                  THEN /\ txPending' = rest
                       /\ txForm' = IF req.orphan THEN txForm
                                    ELSE [txForm EXCEPT !.error = "Failed to save transaction",
                                                        !.loading = FALSE]
                       /\ UNCHANGED <<txShowForm, txEdit>>
                  ELSE /\ txShowForm' = FALSE
                       /\ txEdit' = NULL
                       /\ txForm' = NoTxForm
                       /\ txPending' = Append(Orphaned(rest), [kind |-> "load"])
        /\ UNCHANGED <<appVars, lastConfirm, anVars, rpVars, debtVars, catVars, loadVars,
                       lastOp, txTransactions, txFiltered, txLoading, txFilter>>

\* handleSubmit from the response on, the request lost: the error shown by
\* the form that sent it
TransactionSubmitFailed ==
    /\ \E i \in 1..Len(txPending) :
          /\ txPending[i].kind = "submit"
          /\ txPending' = RemoveAt(txPending, i)
          /\ txForm' = IF txPending[i].orphan THEN txForm
                       ELSE [txForm EXCEPT !.error = "Failed to save transaction",
                                           !.loading = FALSE]
    /\ UNCHANGED <<appVars, lastConfirm, anVars, rpVars, storeVars, debtVars, catVars, loadVars,
                   txTransactions, txFiltered, txLoading, txShowForm, txEdit, txFilter>>

\* handleDelete(id), the confirm dialog declined: the handler returns
DeclineDeleteTransaction ==
    /\ ~txLoading
    /\ ~txShowForm
    /\ txFiltered # <<>>
    /\ lastConfirm' = "declined"
    /\ UNCHANGED <<appVars, anVars, rpVars, storeVars, debtVars, catVars, loadVars, txVars>>

\* handleDelete(id) up to its await, the confirm dialog accepted
HandleDeleteTransaction ==
    /\ ~txLoading
    /\ ~txShowForm
    /\ Len(txPending) < MaxPending
    /\ lastConfirm' = "accepted"
    /\ \E i \in 1..Len(txFiltered) :
          txPending' = Append(txPending, [kind |-> "delete", id |-> txFiltered[i].id])
    /\ UNCHANGED <<appVars, anVars, rpVars, storeVars, debtVars, catVars, loadVars,
                   txTransactions, txFiltered, txLoading, txShowForm, txEdit, txFilter,
                   txForm>>

\* handleDelete from the response on, no error: loadTransactions called
TransactionDeleteAnswered ==
    \E i \in 1..Len(txPending) :
        /\ txPending[i].kind = "delete"
        /\ db' = StoreDelete(db, "transactions", txPending[i].id, CurrentUser).db
        /\ txPending' = Append(RemoveAt(txPending, i), [kind |-> "load"])
        /\ UNCHANGED <<appVars, lastConfirm, anVars, rpVars, debtVars, catVars, loadVars,
                       nextId, lastOp, txTransactions, txFiltered, txLoading, txShowForm,
                       txEdit, txFilter, txForm>>

\* handleDelete from the response on, the error thrown and caught
TransactionDeleteFailed ==
    /\ \E i \in 1..Len(txPending) :
          /\ txPending[i].kind = "delete"
          /\ txPending' = RemoveAt(txPending, i)
    /\ UNCHANGED <<appVars, lastConfirm, anVars, rpVars, storeVars, debtVars, catVars, loadVars,
                   txTransactions, txFiltered, txLoading, txShowForm, txEdit, txFilter,
                   txForm>>

\* the onChange handlers of the three filter inputs and the Clear Filters
\* button; applyFilters runs as the effect of the new filter
SetFilter ==
    /\ ~txLoading
    /\ ~txShowForm
    /\ \/ \E type \in {"all"} \cup TxTypes : txFilter' = [txFilter EXCEPT !.type = type]
       \/ \E date \in {NoDate} \cup TxFilterDates :
             txFilter' = [txFilter EXCEPT !.dateFrom = date]
       \/ \E date \in {NoDate} \cup TxFilterDates :
             txFilter' = [txFilter EXCEPT !.dateTo = date]
       \/ txFilter' = NoFilter
    /\ txFilter' # txFilter
    /\ txFiltered' = ApplyFilters(txTransactions, txFilter')
    /\ UNCHANGED <<appVars, lastConfirm, anVars, rpVars, storeVars, debtVars, catVars, loadVars,
                   txTransactions, txLoading, txShowForm, txEdit, txForm, txPending>>

NextTransactions ==
    \/ LoadTransactionsOk
    \/ LoadTransactionsFailed
    \/ NewTransaction
    \/ EditTransaction
    \/ SetType
    \/ ChangeTxForm
    \/ CloseTransactionForm
    \/ LoadFormCategoriesOk
    \/ LoadFormCategoriesFailed
    \/ HandleSubmitTransaction
    \/ TransactionSubmitAnswered
    \/ TransactionSubmitFailed
    \/ HandleDeleteTransaction
    \/ TransactionDeleteAnswered
    \/ TransactionDeleteFailed

----------------------------------------------------------------------------
(* The three pages with a list, a form and delete buttons: one of them
   mounted, its effect run *)

\* the categories a user has made before opening the transactions page
SeedCategories ==
    WithRow(WithRow(<<>>, 1, [id |-> 1, user_id |-> CurrentUser, name |-> "Sales",
                              type |-> "income"]),
            2, [id |-> 2, user_id |-> CurrentUser, name |-> "Rent", type |-> "expense"])

InitCrud ==
    /\ tz = "utc"
    /\ anResponse = [error |-> TRUE, data |-> <<>>]
    /\ anLoading = FALSE
    /\ monthlyData = <<>>
    /\ categoryData = <<>>
    /\ ReportsPageUnmounted
    /\ LoadPagesUnmounted
    /\ lastOp = NoOp
    /\ now = [date |-> <<2024, 3, 10>>, tick |-> 1]
    /\ debtItems = <<>>
    /\ debtLoading = TRUE
    /\ debtShowForm = FALSE
    /\ debtEditItem = NULL
    /\ debtFormData = EmptyForm
    /\ debtError = ""
    /\ txTransactions = <<>>
    /\ txFiltered = <<>>
    /\ txLoading = TRUE
    /\ txShowForm = FALSE
    /\ txEdit = NULL
    /\ txFilter = NoFilter
    /\ txForm = NoTxForm
    /\ catCategories = <<>>
    /\ catLoading = TRUE
    /\ catShowForm = FALSE
    /\ catEdit = NULL
    /\ catFormData = EmptyCategoryForm
    /\ catError = ""
    /\ \/ /\ AppShows("debts")
          /\ db = [t \in Tables |-> <<>>]
          /\ nextId = 1
          /\ debtPending = << [kind |-> "load"] >>
          /\ catPending = <<>>
          /\ txPending = <<>>
       \/ /\ AppShows("categories")
          /\ db = [t \in Tables |-> <<>>]
          /\ nextId = 1
          /\ debtPending = <<>>
          /\ catPending = << [kind |-> "load"] >>
          /\ txPending = <<>>
       \/ /\ AppShows("transactions")
          /\ db = [t \in Tables |-> IF t = "categories" THEN SeedCategories ELSE <<>>]
          /\ nextId = 3
          /\ debtPending = <<>>
          /\ catPending = <<>>
          /\ txPending = << [kind |-> "load"] >>

NextCrud ==
    \/ NextDebts
    \/ DeclineDelete
    \/ NextCategories
    \/ DeclineDeleteCategory
    \/ NextTransactions
    \/ DeclineDeleteTransaction

SpecCrud == InitCrud /\ [][NextCrud]_vars

----------------------------------------------------------------------------
(* ReportsPage and DashboardPage over the data store *)

\* generateReport calls in flight
MaxReportLoads == 2

\* a Date whose day-of-month ran past the end of its month
Overflowed(y, m, d) ==
    IF d <= DaysInMonth(y, m) THEN <<y, m, d>>
    ELSE IF m < 12 THEN <<y, m + 1, d - DaysInMonth(y, m)>>
    ELSE <<y + 1, 1, d - DaysInMonth(y, m)>>

\* start.setDate(today.getDate() - n)
DaysBack(date, n) ==
    LET back[k \in 0..n] == IF k = 0 THEN date ELSE PrevDay(back[k - 1])
    IN  back[n]

\* start.setMonth(today.getMonth() - 1)
MonthBack(date) ==
    IF date[2] > 1 THEN Overflowed(date[1], date[2] - 1, date[3])
    ELSE Overflowed(date[1] - 1, 12, date[3])

\* start.setFullYear(today.getFullYear() - 1)
YearBack(date) ==
    Overflowed(date[1] - 1, date[2], date[3])

\* toISOString().split('T')[0] of a Date whose local calendar date is `local`
\* and whose time of day is that of `instant`
IsoDate(local, instant, zone) ==
    IF LocalDate(instant, zone) = instant.date THEN local
    ELSE IF LocalDate(instant, zone) = NextDay(instant.date) THEN PrevDay(local)
    ELSE NextDay(local)

Periods == {"week", "month", "year"}

\* setDateRange: the values handed to setStartDate and setEndDate
DateRangeOf(periodType, instant, zone) ==
    LET today == LocalDate(instant, zone)
        start == CASE periodType = "week" -> DaysBack(today, 7)
                   [] periodType = "month" -> MonthBack(today)
                   [] OTHER -> YearBack(today)
    IN  [startDate |-> IsoDate(start, instant, zone), endDate |-> instant.date]

\* loadDashboardData: monthStart
MonthStartOf(instant, zone) ==
    LET today == LocalDate(instant, zone)
    IN  IsoDate(<<today[1], today[2], 1>>, instant, zone)

\* what a user picks in the two date inputs of ReportsPage; clearing an
\* input gives ''
ReportStartDates == {NoDate, <<2024, 3, 4>>}

ReportEndDates == {NoDate, <<2024, 3, 9>>}

\* .gte('transaction_date', startDate) with the bound left out of the range
InRangeOpen(row, startDate, endDate) ==
    /\ LexLess(startDate, row.transaction_date)
    /\ DateLeq(row.transaction_date, endDate)

\* .gte('transaction_date', startDate).lte('transaction_date', endDate)
InRange(row, startDate, endDate) ==
    /\ DateLeq(startDate, row.transaction_date)
    /\ DateLeq(row.transaction_date, endDate)

\* generateReport: the rows the select returns, each joined with its category
SelectReport(d, uid, startDate, endDate) ==
    LET rows == RowsById({ row \in StoreSelect(d, "transactions", uid) :
                              InRange(row, startDate, endDate) })
    IN  [i \in 1..Len(rows) |-> JoinCategory(d, rows[i], uid)]

\* loadDashboardData: the rows the select returns
SelectSince(d, uid, monthStart) ==
    SortBy(RowsById({ row \in StoreSelect(d, "transactions", uid) :
                         DateLeq(monthStart, row.transaction_date) }),
           DateAfter)

\* transactions?.slice(0, 5)
RecentCount == 5

\* the values loadDashboardData hands to setSummary and setRecentTransactions
DashboardOf(transactions) ==
    LET income == TotalOfType(transactions, "income")
        expense == TotalOfType(transactions, "expense")
    IN  [summary |-> [totalIncome |-> income, totalExpense |-> expense,
                      balance |-> income - expense, profitLoss |-> income - expense],
         recent |-> SubSeq(transactions, 1,
                           IF Len(transactions) < RecentCount THEN Len(transactions)
                           ELSE RecentCount)]

\* the transactions two users have recorded before the pages are opened
SeedTransactions ==
    << [id |-> 3, user_id |-> CurrentUser, type |-> "income", amount |-> 1000,
        category_id |-> 1, transaction_date |-> <<2024, 3, 10>>],
       [id |-> 4, user_id |-> CurrentUser, type |-> "expense", amount |-> 500,
        category_id |-> 2, transaction_date |-> <<2024, 3, 3>>],
       [id |-> 5, user_id |-> CurrentUser, type |-> "expense", amount |-> 1000,
        category_id |-> NULL, transaction_date |-> <<2024, 2, 10>>],
       [id |-> 6, user_id |-> "2", type |-> "income", amount |-> 500,
        category_id |-> NULL, transaction_date |-> <<2024, 3, 5>>],
       [id |-> 7, user_id |-> CurrentUser, type |-> "income", amount |-> 500,
        category_id |-> 1, transaction_date |-> <<2024, 3, 4>>] >>

\* the data store holding the first n of them
SeedStore(n) ==
    LET put[k \in 0..n] ==
            IF k = 0 THEN <<>>
            ELSE WithRow(put[k - 1], SeedTransactions[k].id, SeedTransactions[k])
    IN  [t \in Tables |-> IF t = "categories" THEN SeedCategories
                          ELSE IF t = "transactions" THEN put[n]
                          ELSE <<>>]

\* the select of a page as the data store saw it
SelectOp(rows, failed) ==
    [NoOp EXCEPT !.caller = CurrentUser, !.table = "transactions", !.op = "select",
                 !.error = failed, !.rows = rows]

\* ReportsPage or DashboardPage mounted and its effects run: setDateRange
\* and the first generateReport, or loadDashboardData
InitLoads ==
    /\ tz \in TimeZones
    /\ now = [date |-> <<2024, 3, 10>>, tick |-> 0]
    /\ anResponse = [error |-> TRUE, data |-> <<>>]
    /\ anLoading = FALSE
    /\ monthlyData = <<>>
    /\ categoryData = <<>>
    /\ rpResponse = [error |-> TRUE, data |-> <<>>]
    /\ rpInFlight = FALSE
    /\ reportData = EmptyReport
    /\ \E n \in 4..Len(SeedTransactions) : db = SeedStore(n)
    /\ nextId = 8
    /\ lastOp = NoOp
    /\ debtItems = <<>>
    /\ debtLoading = TRUE
    /\ debtShowForm = FALSE
    /\ debtEditItem = NULL
    /\ debtFormData = EmptyForm
    /\ debtError = ""
    /\ debtPending = <<>>
    /\ CrudPagesUnmounted
    /\ dashSummary = EmptySummary
    /\ dashRecent = <<>>
    /\ dashLoading = TRUE
    /\ csvContent = NoFile
    /\ rpPeriod = "month"
    /\ \/ /\ AppShows("reports")
          /\ rpStartDate = DateRangeOf("month", now, tz).startDate
          /\ rpEndDate = DateRangeOf("month", now, tz).endDate
          /\ rpLoading = TRUE
          /\ rpPending = << [startDate |-> rpStartDate, endDate |-> rpEndDate] >>
          /\ dashPending = <<>>
       \/ /\ AppShows("dashboard")
          /\ rpStartDate = NoDate
          /\ rpEndDate = NoDate
          /\ rpLoading = FALSE
          /\ rpPending = <<>>
          /\ dashPending = << [monthStart |-> MonthStartOf(now, tz)] >>

\* the effect of [startDate, endDate, user]: generateReport up to its await
\* when both dates are set, nothing otherwise
RangeEffect(startDate, endDate) ==
    IF startDate # NoDate /\ endDate # NoDate
    THEN /\ Len(rpPending) < MaxReportLoads
         /\ rpLoading' = TRUE
         /\ rpPending' = Append(rpPending, [startDate |-> startDate, endDate |-> endDate])
    ELSE UNCHANGED <<rpLoading, rpPending>>

\* the Week, Month and Year buttons: setPeriod, setDateRange as the effect of
\* the new period, generateReport as the effect of the new dates
SetPeriod ==
    /\ currentPage = "reports"
    /\ \E periodType \in Periods :
          /\ periodType # rpPeriod
          /\ rpPeriod' = periodType
          /\ rpStartDate' = DateRangeOf(periodType, now, tz).startDate
          /\ rpEndDate' = DateRangeOf(periodType, now, tz).endDate
          /\ IF rpStartDate' # rpStartDate \/ rpEndDate' # rpEndDate
             THEN RangeEffect(rpStartDate', rpEndDate')
             ELSE UNCHANGED <<rpLoading, rpPending>>
    /\ UNCHANGED <<appVars, lastConfirm, crudVars, dashVars, csvContent, anVars, storeVars, debtVars,
                   rpResponse, rpInFlight, reportData>>

\* onChange of the Start Date input
SetStartDate ==
    /\ currentPage = "reports"
    /\ \E date \in ReportStartDates :
          /\ date # rpStartDate
          /\ rpStartDate' = date
          /\ RangeEffect(date, rpEndDate)
    /\ UNCHANGED <<appVars, lastConfirm, crudVars, dashVars, csvContent, anVars, storeVars, debtVars,
                   rpResponse, rpInFlight, reportData, rpPeriod, rpEndDate>>

\* onChange of the End Date input
SetEndDate ==
    /\ currentPage = "reports"
    /\ \E date \in ReportEndDates :
          /\ date # rpEndDate
          /\ rpEndDate' = date
          /\ RangeEffect(rpStartDate, date)
    /\ UNCHANGED <<appVars, lastConfirm, crudVars, dashVars, csvContent, anVars, storeVars, debtVars,
                   rpResponse, rpInFlight, reportData, rpPeriod, rpStartDate>>

\* generateReport from the response on, the error thrown and caught, with
\* the catch block resetting the report
ReportFailedResets ==
    /\ \E i \in 1..Len(rpPending) :
          rpPending' = RemoveAt(rpPending, i)
    /\ lastOp' = SelectOp({}, TRUE)
    /\ reportData' = EmptyReport
    /\ rpLoading' = FALSE
    /\ UNCHANGED <<appVars, lastConfirm, crudVars, dashVars, csvContent, anVars, debtVars, db, nextId,
                   rpResponse, rpInFlight, rpPeriod, rpStartDate, rpEndDate>>

\* generateReport from the response on, the error thrown and caught
ReportFailed ==
    /\ \E i \in 1..Len(rpPending) :
          rpPending' = RemoveAt(rpPending, i)
    /\ lastOp' = SelectOp({}, TRUE)
    /\ rpLoading' = FALSE
    /\ UNCHANGED <<appVars, lastConfirm, crudVars, dashVars, csvContent, anVars, debtVars, db, nextId,
                   rpResponse, rpInFlight, reportData, rpPeriod, rpStartDate, rpEndDate>>

\* generateReport from the response on, no error, the response dropped when
\* a later call is still in flight
ReportAnsweredLatestOnly ==
    /\ \E i \in 1..Len(rpPending) :
          LET req == rpPending[i]
              transactions == SelectReport(db, CurrentUser, req.startDate, req.endDate)
          IN  /\ rpPending' = RemoveAt(rpPending, i)
              /\ lastOp' = SelectOp({ transactions[k] : k \in 1..Len(transactions) }, FALSE)
              /\ reportData' = IF i = Len(rpPending) THEN ReportOf(transactions)
                               ELSE reportData
    /\ rpLoading' = FALSE
    /\ UNCHANGED <<appVars, lastConfirm, crudVars, dashVars, csvContent, anVars, debtVars, db, nextId,
                   rpResponse, rpInFlight, rpPeriod, rpStartDate, rpEndDate>>

\* generateReport from the response on, no error: the responses arrive in
\* any order and each one is handed to setReportData
ReportAnswered ==
    /\ \E i \in 1..Len(rpPending) :
          LET req == rpPending[i]
              transactions == SelectReport(db, CurrentUser, req.startDate, req.endDate)
          IN  /\ rpPending' = RemoveAt(rpPending, i)
              /\ lastOp' = SelectOp({ transactions[k] : k \in 1..Len(transactions) }, FALSE)
              /\ reportData' = ReportOf(transactions)
    /\ rpLoading' = FALSE
    /\ UNCHANGED <<appVars, lastConfirm, crudVars, dashVars, csvContent, anVars, debtVars, db, nextId,
                   rpResponse, rpInFlight, rpPeriod, rpStartDate, rpEndDate>>

\* loadDashboardData from the response on, no error
LoadDashboardOk ==
    /\ dashPending # <<>>
    /\ LET transactions == SelectSince(db, CurrentUser, dashPending[1].monthStart)
       IN  /\ dashSummary' = DashboardOf(transactions).summary
           /\ dashRecent' = DashboardOf(transactions).recent
           /\ lastOp' = SelectOp({ transactions[k] : k \in 1..Len(transactions) }, FALSE)
    /\ dashPending' = Tail(dashPending)
    /\ dashLoading' = FALSE
    /\ UNCHANGED <<appVars, lastConfirm, crudVars, rpPageVars, csvContent, anVars, rpVars, debtVars,
                   db, nextId>>

\* loadDashboardData from the response on, the error thrown and caught,
\* with setLoading(false) at the end of the try block and no finally
LoadDashboardFailedKeepsLoading ==
    /\ dashPending # <<>>
    /\ dashPending' = Tail(dashPending)
    /\ lastOp' = SelectOp({}, TRUE)
    /\ UNCHANGED <<appVars, lastConfirm, crudVars, rpPageVars, csvContent, anVars, rpVars, debtVars,
                   db, nextId, dashSummary, dashRecent, dashLoading>>

\* loadDashboardData from the response on, the error thrown and caught
LoadDashboardFailed ==
    /\ dashPending # <<>>
    /\ dashPending' = Tail(dashPending)
    /\ lastOp' = SelectOp({}, TRUE)
    /\ dashLoading' = FALSE
    /\ UNCHANGED <<appVars, lastConfirm, crudVars, rpPageVars, csvContent, anVars, rpVars, debtVars,
                   db, nextId, dashSummary, dashRecent>>

NextLoads ==
    \/ SetPeriod
    \/ SetStartDate
    \/ SetEndDate
    \/ ReportAnswered
    \/ ReportFailed
    \/ LoadDashboardOk
    \/ LoadDashboardFailed

SpecLoads == InitLoads /\ [][NextLoads]_vars

----------------------------------------------------------------------------
(* TransactionsPage with its filters, over recorded transactions *)

\* TransactionsPage mounted and its effect run
InitTxFilter ==
    /\ AppShows("transactions")
    /\ tz = "utc"
    /\ now = [date |-> <<2024, 3, 10>>, tick |-> 1]
    /\ anResponse = [error |-> TRUE, data |-> <<>>]
    /\ anLoading = FALSE
    /\ monthlyData = <<>>
    /\ categoryData = <<>>
    /\ ReportsPageUnmounted
    /\ LoadPagesUnmounted
    /\ \E n \in 4..Len(SeedTransactions) : db = SeedStore(n)
    /\ nextId = 8
    /\ lastOp = NoOp
    /\ debtItems = <<>>
    /\ debtLoading = TRUE
    /\ debtShowForm = FALSE
    /\ debtEditItem = NULL
    /\ debtFormData = EmptyForm
    /\ debtError = ""
    /\ debtPending = <<>>
    /\ CategoriesPageUnmounted
    /\ txTransactions = <<>>
    /\ txFiltered = <<>>
    /\ txLoading = TRUE
    /\ txShowForm = FALSE
    /\ txEdit = NULL
    /\ txFilter = NoFilter
    /\ txForm = NoTxForm
    /\ txPending = << [kind |-> "load"] >>

NextTxFilter ==
    \/ LoadTransactionsOk
    \/ LoadTransactionsFailed
    \/ SetFilter
    \/ HandleDeleteTransaction
    \/ TransactionDeleteAnswered
    \/ TransactionDeleteFailed

SpecTxFilter == InitTxFilter /\ [][NextTxFilter]_vars

----------------------------------------------------------------------------
(* DebtsPage rendered over time: one record on screen, the clock running *)

OverdueDates == {<<2024, 2, 29>>, <<2024, 3, 1>>, <<2024, 3, 2>>}

LastOverdueDate == <<2024, 3, 2>>

OverduePaidAmounts == {0, 500, 1000}

\* a record as handleSubmit writes it
OverdueRow(due, paid) ==
    [id |-> 1, user_id |-> CurrentUser, type |-> "debt", amount |-> 1000,
     paid_amount |-> paid, due_date |-> due, status |-> StatusOf(paid, 1000)]

InitOverdue ==
    /\ AppShows("debts")
    /\ CrudPagesUnmounted
    /\ LoadPagesUnmounted
    /\ tz \in TimeZones
    /\ anResponse = [error |-> TRUE, data |-> <<>>]
    /\ anLoading = FALSE
    /\ monthlyData = <<>>
    /\ categoryData = <<>>
    /\ ReportsPageUnmounted
    /\ \E due \in OverdueDates, paid \in OverduePaidAmounts :
          db = [t \in Tables |-> IF t = "debts_receivables"
                                 THEN WithRow(<<>>, 1, OverdueRow(due, paid))
                                 ELSE <<>>]
    /\ nextId = 2
    /\ lastOp = NoOp
    /\ now \in [date : OverdueDates, tick : 0..TicksPerDay - 1]
    /\ debtItems = SelectDebts(db, CurrentUser)
    /\ debtLoading = FALSE
    /\ debtShowForm = FALSE
    /\ debtEditItem = NULL
    /\ debtFormData = EmptyForm
    /\ debtError = ""
    /\ debtPending = <<>>

\* time passes between two renders
Tick ==
    /\ now.date # LastOverdueDate \/ now.tick < TicksPerDay - 1
    /\ now' = IF now.tick < TicksPerDay - 1
              THEN [now EXCEPT !.tick = @ + 1]
              ELSE [date |-> NextDay(now.date), tick |-> 0]
    /\ UNCHANGED <<appVars, lastConfirm, crudVars, loadVars, anVars, rpVars, storeVars, debtItems, debtLoading, debtShowForm,
                   debtEditItem, debtFormData, debtError, debtPending>>

NextOverdue ==
    Tick

SpecOverdue == InitOverdue /\ [][NextOverdue]_vars

----------------------------------------------------------------------------
(* The delete buttons of the three list pages, over recorded rows *)

\* a debt and a receivable recorded before the debts page is opened
SeedDebts ==
    WithRow(WithRow(<<>>, 1, OverdueRow(<<2024, 3, 9>>, 0)),
            2, [OverdueRow(<<2024, 3, 11>>, 500) EXCEPT !.id = 2, !.type = "receivable"])

\* one of the three pages mounted and its effect run
InitDeletes ==
    /\ tz = "utc"
    /\ now = [date |-> <<2024, 3, 10>>, tick |-> 1]
    /\ anResponse = [error |-> TRUE, data |-> <<>>]
    /\ anLoading = FALSE
    /\ monthlyData = <<>>
    /\ categoryData = <<>>
    /\ ReportsPageUnmounted
    /\ LoadPagesUnmounted
    /\ db = [SeedStore(Len(SeedTransactions)) EXCEPT !.debts_receivables = SeedDebts]
    /\ nextId = 8
    /\ lastOp = NoOp
    /\ debtItems = <<>>
    /\ debtLoading = TRUE
    /\ debtShowForm = FALSE
    /\ debtEditItem = NULL
    /\ debtFormData = EmptyForm
    /\ debtError = ""
    /\ txTransactions = <<>>
    /\ txFiltered = <<>>
    /\ txLoading = TRUE
    /\ txShowForm = FALSE
    /\ txEdit = NULL
    /\ txFilter = NoFilter
    /\ txForm = NoTxForm
    /\ catCategories = <<>>
    /\ catLoading = TRUE
    /\ catShowForm = FALSE
    /\ catEdit = NULL
    /\ catFormData = EmptyCategoryForm
    /\ catError = ""
    /\ \/ /\ AppShows("debts")
          /\ debtPending = << [kind |-> "load"] >>
          /\ catPending = <<>>
          /\ txPending = <<>>
       \/ /\ AppShows("categories")
          /\ debtPending = <<>>
          /\ catPending = << [kind |-> "load"] >>
          /\ txPending = <<>>
       \/ /\ AppShows("transactions")
          /\ debtPending = <<>>
          /\ catPending = <<>>
          /\ txPending = << [kind |-> "load"] >>

NextDeletes ==
    \/ LoadItemsOk
    \/ LoadItemsFailed
    \/ DeclineDelete
    \/ HandleDelete
    \/ DeleteAnswered
    \/ DeleteFailed
    \/ LoadCategoriesOk
    \/ LoadCategoriesFailed
    \/ DeclineDeleteCategory
    \/ HandleDeleteCategory
    \/ CategoryDeleteAnswered
    \/ CategoryDeleteFailed
    \/ LoadTransactionsOk
    \/ LoadTransactionsFailed
    \/ DeclineDeleteTransaction
    \/ HandleDeleteTransaction
    \/ TransactionDeleteAnswered
    \/ TransactionDeleteFailed

SpecDeletes == InitDeletes /\ [][NextDeletes]_vars

----------------------------------------------------------------------------
(* AnalyticsPage.loadAnalytics, from the arrival of the query's response *)

InitAnalytics ==
    /\ AppShows("analytics")
    /\ CrudPagesUnmounted
    /\ LoadPagesUnmounted
    /\ tz \in TimeZones
    /\ anResponse \in AnalyticsResponses
    /\ anLoading = TRUE
    /\ monthlyData = <<>>
    /\ categoryData = <<>>
    /\ ReportsPageUnmounted
    /\ StoreEmpty
    /\ DebtsPageUnmounted

LoadAnalyticsOk ==
    /\ anLoading
    /\ ~anResponse.error
    /\ monthlyData' = MonthlyArray(anResponse.data, tz)
    /\ categoryData' = CategoryArray(anResponse.data)
    /\ anLoading' = FALSE
    /\ UNCHANGED <<appVars, lastConfirm, crudVars, loadVars, tz, anResponse, rpVars, storeVars, debtVars>>

LoadAnalyticsFailed ==
    /\ anLoading
    /\ anResponse.error
    /\ anLoading' = FALSE
    /\ UNCHANGED <<appVars, lastConfirm, crudVars, loadVars, tz, anResponse, monthlyData, categoryData, rpVars, storeVars, debtVars>>

NextAnalytics ==
    \/ LoadAnalyticsOk
    \/ LoadAnalyticsFailed

SpecAnalytics == InitAnalytics /\ [][NextAnalytics]_vars

----------------------------------------------------------------------------
(* The four pages that load on mount, every response arriving in the end *)

\* one page of the four is shown, just mounted, over one store and in one
\* time zone
InitPageLoads ==
    \/ InitLoads /\ tz = "utc" /\ db = SeedStore(4)
    \/ InitTxFilter /\ db = SeedStore(4)
    \/ InitAnalytics /\ tz = "utc" /\ Len(anResponse.data) <= 1

NextPageLoads ==
    \/ NextLoads
    \/ NextTxFilter
    \/ NextAnalytics

\* a response to a load of the page shown arrives
LoadResponds ==
    \/ ReportFailed
    \/ ReportAnswered
    \/ LoadDashboardFailed
    \/ LoadDashboardOk
    \/ LoadTransactionsFailed
    \/ LoadTransactionsOk
    \/ LoadAnalyticsFailed
    \/ LoadAnalyticsOk

\* every awaited request of the data store is answered, without or with
\* an error
BackendResponds == WF_vars(LoadResponds)

SpecPageLoads == InitPageLoads /\ [][NextPageLoads]_vars /\ BackendResponds

----------------------------------------------------------------------------
(* Claims on the analytics rollups *)

AnalyticsLoaded ==
    ~anLoading /\ ~anResponse.error

AmountsOfType(transactions, ty) ==
    [i \in 1..Len(Filter(transactions, LAMBDA t : t.type = ty)) |->
        Filter(transactions, LAMBDA t : t.type = ty)[i].amount]

\* C1: the income totals of the monthly entries add up to the amounts of the
\* income transactions of the response, and the expense totals to those of the
\* expense transactions.
C1_MonthlyRollupLossless ==
    AnalyticsLoaded =>
        /\ SumSeq([i \in 1..Len(monthlyData) |-> monthlyData[i].income])
             = SumSeq(AmountsOfType(anResponse.data, "income"))
        /\ SumSeq([i \in 1..Len(monthlyData) |-> monthlyData[i].expense])
             = SumSeq(AmountsOfType(anResponse.data, "expense"))

\* a loaded rollup of two months, one of them holding several transactions,
\* with income and expense both present
C1_Witness ==
    /\ AnalyticsLoaded
    /\ Len(monthlyData) = 2
    /\ Len(anResponse.data) = 3
    /\ \E i \in 1..Len(monthlyData) : monthlyData[i].income > 0 /\ monthlyData[i].expense > 0

MonthsOf(transactions) ==
    { <<transactions[i].transaction_date[1], transactions[i].transaction_date[2]>> :
        i \in 1..Len(transactions) }

Scenario ==
    << [type |-> "income", amount |-> 100, transaction_date |-> <<2024, 1, 5>>,
        categories |-> ShortCategory(100)],
       [type |-> "expense", amount |-> 40, transaction_date |-> <<2024, 1, 10>>,
        categories |-> ShortCategory(40)],
       [type |-> "income", amount |-> 30, transaction_date |-> <<2024, 2, 1>>,
        categories |-> ShortCategory(30)] >>

\* C2: the monthly rollup has one entry per (year, month) of transaction_date,
\* in ascending calendar order; the three transactions of the scenario give
\* 2024-01 {100, 40} and then 2024-02 {30, 0}.
C2_MonthlyOnePerMonthAscending ==
    AnalyticsLoaded =>
        /\ Len(monthlyData) = Cardinality(MonthsOf(anResponse.data))
        /\ \A i \in 1..Len(monthlyData) - 1 :
              LexLess(<<monthlyData[i].month.year, monthlyData[i].month.mon>>,
                      <<monthlyData[i + 1].month.year, monthlyData[i + 1].month.mon>>)
        /\ anResponse.data = Scenario =>
              monthlyData = << [month |-> [mon |-> 1, year |-> 2024], income |-> 100, expense |-> 40],
                               [month |-> [mon |-> 2, year |-> 2024], income |-> 30, expense |-> 0] >>

GroupNames(transactions) ==
    { CategoryNameOf(transactions[i]) : i \in 1..Len(transactions) }

GroupTotal(transactions, name) ==
    SumSeq([i \in 1..Len(transactions) |->
              IF CategoryNameOf(transactions[i]) = name THEN transactions[i].amount ELSE 0])

\* C8: the category rollup has at most 10 entries, in non-increasing order of
\* total, and no group left out has a larger total than a group kept.
C8_CategoryTopTen ==
    AnalyticsLoaded =>
        LET groups == GroupNames(anResponse.data)
            kept == { categoryData[i].name : i \in 1..Len(categoryData) }
        IN  /\ Len(categoryData) <= 10
            /\ Len(categoryData) = (IF Cardinality(groups) < 10 THEN Cardinality(groups) ELSE 10)
            /\ Cardinality(kept) = Len(categoryData)
            /\ kept \subseteq groups
            /\ \A i \in 1..Len(categoryData) :
                  categoryData[i].value = GroupTotal(anResponse.data, categoryData[i].name)
            /\ \A i \in 1..Len(categoryData) - 1 :
                  categoryData[i].value >= categoryData[i + 1].value
            /\ \A g \in groups \ kept : \A i \in 1..Len(categoryData) :
                  GroupTotal(anResponse.data, g) <= categoryData[i].value

\* more than ten groups, with different totals among them, loaded
C8_Witness ==
    /\ AnalyticsLoaded
    /\ Cardinality(GroupNames(anResponse.data)) > 10
    /\ Len(categoryData) = 10
    /\ categoryData[1].value > categoryData[10].value
    /\ \E g \in GroupNames(anResponse.data) :
          GroupTotal(anResponse.data, g) < categoryData[10].value

----------------------------------------------------------------------------
(* Claims on the period report *)

\* C7: no percentage of the category breakdown is NaN or infinite, and it is
\* 0 whenever the total of the entry's type is zero.
C7_PercentageNeverNaN ==
    \A i \in 1..Len(reportData.categoryBreakdown) :
        LET item == reportData.categoryBreakdown[i]
            typeTotal == IF item.type = "income" THEN reportData.totalIncome
                         ELSE reportData.totalExpense
            percentage == Percentage(item, reportData)
        IN  /\ percentage.kind = "finite"
            /\ typeTotal = 0 => percentage.num = 0

----------------------------------------------------------------------------
(* Claims on the data store *)

\* C9: the delete of a category its owner asks for succeeds although
\* transactions reference it; each such transaction stays, unchanged but for
\* its category reference, which is null, and its owner's next load resolves
\* its category name to 'Uncategorized'.
C9_DeleteCategoryKeepsTransactions ==
    [][ ( /\ lastOp'.op = "delete"
          /\ lastOp'.table = "categories"
          /\ lastOp'.id \in DOMAIN db.categories
          /\ db.categories[lastOp'.id].user_id = lastOp'.caller )
        => /\ ~lastOp'.error
           /\ lastOp'.id \notin DOMAIN db'.categories
           /\ \A t \in DOMAIN db.transactions :
                 db.transactions[t].category_id = lastOp'.id =>
                    /\ t \in DOMAIN db'.transactions
                    /\ db'.transactions[t] = [db.transactions[t] EXCEPT !.category_id = NULL]
                    /\ CategoryNameOf(JoinCategory(db', db'.transactions[t],
                                                   db'.transactions[t].user_id)) = Uncategorized
      ]_vars

\* a category was deleted while a transaction referenced it
C9_Witness ==
    /\ lastOp.op = "delete"
    /\ lastOp.table = "categories"
    /\ lastOp.count = 1
    /\ lastOp.cascaded # {}
    /\ \A t \in lastOp.cascaded :
          t \in DOMAIN db.transactions /\ db.transactions[t].category_id = NULL

RowChanged(tbl, id) ==
    IF id \in DOMAIN db[tbl] /\ id \in DOMAIN db'[tbl]
    THEN db[tbl][id] # db'[tbl][id]
    ELSE id \in DOMAIN db[tbl] \/ id \in DOMAIN db'[tbl]

C12_PagesOnlyWhenAuthenticated ==
    /\ Rendered \in Pages => user # NoUser
    /\ user = NoUser => Rendered \in {"login", "register"}

\* signed out from the debts page: currentPage still names it, the sign-in
\* form is what is rendered
C12_Witness ==
    /\ user = NoUser
    /\ profile = NoProfile
    /\ currentPage = "debts"
    /\ Rendered = "login"

\* C13: the identity moves Anonymous -> Authenticating -> Authenticated on
\* sign-in or sign-up and Authenticated -> Anonymous on sign-out, and never
\* becomes Authenticated without first being in the Authenticating state
\* (the provider's loading).
C13_AuthenticatedOnlyFromAuthenticating ==
    [][ (user = NoUser /\ user' # NoUser) => authLoading ]_vars

\* C11: a caller whose profile role is admin can access the rows of all
\* users in every table: what such a caller selects from a table is every
\* row of the table.
C11_AdminSeesAllRows ==
    (lastOp.op = "select" /\ RoleOf(lastOp.caller) = "admin")
        => lastOp.rows = RowsOf(db[lastOp.table])

DebtRows ==
    RowsOf(db.debts_receivables)

\* C3: after any sequence of create and edit submissions through the debts
\* form, every stored debt/receivable record has status paid exactly when
\* paid_amount >= amount, and status partial exactly when
\* 0 < paid_amount < amount.
C3_StatusPaidAndPartial ==
    \A row \in DebtRows :
        /\ row.status = "paid" <=> row.paid_amount >= row.amount
        /\ row.status = "partial" <=> (0 < row.paid_amount /\ row.paid_amount < row.amount)

\* the scenario of C3, stored by an edit: amount 1000, paid_amount 1000,
\* status paid, where the list still shows the record as its create
\* submission left it, partial
C3_Witness ==
    /\ \E row \in DebtRows :
          row.amount = 1000 /\ row.paid_amount = 1000 /\ row.status = "paid"
    /\ \E i \in 1..Len(debtItems) :
          debtItems[i].paid_amount = 500 /\ debtItems[i].status = "partial"

\* C4: for every debt/receivable record written by the debts form, for
\* every amount >= 0 and paid_amount >= 0 the form and the table constraints
\* accept, the status is pending exactly when paid_amount is 0.
C4_StatusPendingIffUnpaid ==
    \A row \in DebtRows :
        row.status = "pending" <=> row.paid_amount = 0

\* C5: every debt/receivable record the debts form and the data store
\* constraints accept has amount > 0, so the progress of every record the
\* debts page displays is defined, never a division by zero.
C5_AmountPositiveProgressDefined ==
    /\ \A row \in DebtRows : row.amount > 0
    /\ \A i \in 1..Len(debtItems) : Progress(debtItems[i]).kind = "finite"

\* overdue as a comparison of calendar dates: the due date strictly before
\* today's date in the local zone, and the status not paid
IsOverdueByDate(dueDate, status, instant, zone) ==
    LexLess(dueDate, LocalDate(instant, zone)) /\ status # "paid"

\* C6: for every record and every current instant, the debts page marks the
\* record overdue exactly when its due date is strictly before today's date
\* and its status is not paid; a record due today is not overdue.
C6_OverdueIffDueBeforeToday ==
    \A i \in 1..Len(debtItems) :
        IsOverdue(debtItems[i].due_date, debtItems[i].status, now, tz)
            <=> IsOverdueByDate(debtItems[i].due_date, debtItems[i].status, now, tz)

\* the delete requests in a page's queue of requests in flight
DeleteRequests(pending) ==
    Len(SelectSeq(pending, LAMBDA r : r.kind = "delete"))

\* C14: on the transactions, categories and debts pages a delete request is
\* sent only in the step in which the confirm dialog was accepted; a step in
\* which the dialog is declined sends no request, starts no reload and leaves
\* the page state and the data store as they were.
C14_DeleteOnlyAfterConfirm ==
    [][ /\ ( \/ DeleteRequests(txPending') > DeleteRequests(txPending)
             \/ DeleteRequests(catPending') > DeleteRequests(catPending)
             \/ DeleteRequests(debtPending') > DeleteRequests(debtPending) )
           => lastConfirm' = "accepted"
        /\ (lastConfirm' = "declined" /\ lastConfirm # "declined")
           => UNCHANGED <<txVars, catVars, debtVars, storeVars>> ]_vars

\* a delete declined after another was accepted and carried out
C14_Witness ==
    /\ lastConfirm = "declined"
    /\ currentPage = "categories"
    /\ Len(catCategories) = 1
    /\ catPending = <<>>
    /\ Cardinality(RowsOf(db.categories)) = 1

\* the requests of one kind in a page's queue of requests in flight
Requests(pending, kind) ==
    Len(SelectSeq(pending, LAMBDA r : r.kind = kind))

\* the submits in flight of the TransactionForm that is mounted
OwnSubmits(pending) ==
    Len(SelectSeq(pending, LAMBDA r : r.kind = "submit" /\ ~r.orphan))

\* C15: when a submit of the transaction, category or debt form is answered,
\* either it succeeded, the form closes and the list is reloaded, or it
\* failed, the form stays as it was with the values entered, a message is
\* set, and no reload is started and no row is written.
C15_SubmitClosesOrKeepsForm ==
    [][ /\ Requests(debtPending', "submit") < Requests(debtPending, "submit")
           => \/ /\ ~debtShowForm'
                 /\ Requests(debtPending', "load") = Requests(debtPending, "load") + 1
              \/ /\ debtError' # ""
                 /\ UNCHANGED <<debtShowForm, debtEditItem, debtFormData, db>>
                 /\ Requests(debtPending', "load") = Requests(debtPending, "load")
        /\ Requests(catPending', "submit") < Requests(catPending, "submit")
           => \/ /\ ~catShowForm'
                 /\ Requests(catPending', "load") = Requests(catPending, "load") + 1
              \/ /\ catError' # ""
                 /\ UNCHANGED <<catShowForm, catEdit, catFormData, db>>
                 /\ Requests(catPending', "load") = Requests(catPending, "load")
        /\ ( /\ Requests(txPending', "submit") < Requests(txPending, "submit")
             /\ OwnSubmits(txPending') < OwnSubmits(txPending) )
           => \/ /\ ~txShowForm'
                 /\ Requests(txPending', "load") = Requests(txPending, "load") + 1
              \/ /\ txShowForm /\ txShowForm'
                 /\ txForm'.error # ""
                 /\ txForm' = [txForm EXCEPT !.error = txForm'.error, !.loading = FALSE]
                 /\ UNCHANGED <<txEdit, db>>
                 /\ Requests(txPending', "load") = Requests(txPending, "load") ]_vars

C15_Witness ==
    /\ currentPage = "categories"
    /\ catShowForm
    /\ catError = "Failed to save category"
    /\ catFormData.name = "Rent"
    /\ catPending = <<>>
    /\ \E row \in RowsOf(db.categories) : row.name = "Sales"

\* C16: every failure of a backend operation of the debts, categories and
\* transactions pages (load, insert, update, delete) ends with a message
\* set for display.
C16_FailureShowsMessage ==
    [][ /\ (LoadItemsFailed \/ SubmitFailed \/ DeleteFailed) => debtError' # ""
        /\ (LoadCategoriesFailed \/ CategorySubmitFailed \/ CategoryDeleteFailed)
              => catError' # ""
        /\ (LoadTransactionsFailed \/ TransactionDeleteFailed) => txForm'.error # "" ]_vars

\* C17: a failed load of ReportsPage.generateReport or of
\* DashboardPage.loadDashboardData leaves the displayed data as it was and
\* ends with the page's loading flag off.
C17_FailedLoadKeepsData ==
    [][ /\ (Len(rpPending') < Len(rpPending) /\ lastOp'.error)
           => (reportData' = reportData /\ ~rpLoading')
        /\ (Len(dashPending') < Len(dashPending) /\ lastOp'.error)
           => (dashSummary' = dashSummary /\ dashRecent' = dashRecent /\ ~dashLoading') ]_vars

C17_Witness ==
    /\ currentPage = "reports"
    /\ lastOp.error
    /\ rpPending = <<>>
    /\ ~rpLoading
    /\ reportData.transactionCount > 0

\* C19: with several generateReport calls in flight none is cancelled or
\* merged with another: a new call only adds a request, a change to a
\* complete range adds one even when an equal one is in flight, and every
\* response that is no error sets the report of its own range, whichever
\* call was made last.
C19_LastCompletedLoadWins ==
    [][ /\ Len(rpPending') > Len(rpPending)
           => rpPending' = Append(rpPending, rpPending'[Len(rpPending')])
        /\ ( /\ <<rpStartDate', rpEndDate'>> # <<rpStartDate, rpEndDate>>
             /\ rpStartDate' # NoDate
             /\ rpEndDate' # NoDate )
           => rpPending' = Append(rpPending,
                                  [startDate |-> rpStartDate', endDate |-> rpEndDate'])
        /\ Len(rpPending') < Len(rpPending)
           => \E i \in 1..Len(rpPending) :
                 /\ rpPending' = RemoveAt(rpPending, i)
                 /\ \/ lastOp'.error
                    \/ reportData' = ReportOf(SelectReport(db, CurrentUser,
                                                           rpPending[i].startDate,
                                                           rpPending[i].endDate)) ]_vars

\* the report of a range that is no longer the selected one is displayed,
\* nothing in flight
C19_Witness ==
    /\ currentPage = "reports"
    /\ rpPending = <<>>
    /\ ~lastOp.error
    /\ rpStartDate # NoDate
    /\ rpEndDate # NoDate
    /\ reportData # ReportOf(SelectReport(db, CurrentUser, rpStartDate, rpEndDate))
    /\ reportData # EmptyReport

\* the sum of the amounts of a set of rows
AmountOf(rows) ==
    LET s == RowsById(rows)
    IN  SumSeq([i \in 1..Len(s) |-> s[i].amount])

\* report is the report of the caller's transactions dated from startDate to
\* endDate, both days included
IsReportOf(report, startDate, endDate) ==
    LET rows == { row \in RowsOf(db.transactions) :
                     /\ row.user_id = CurrentUser
                     /\ ~LexLess(row.transaction_date, startDate)
                     /\ ~LexLess(endDate, row.transaction_date) }
        nameOf(row) == CategoryNameOf(JoinCategory(db, row, CurrentUser))
        names == { nameOf(row) : row \in rows }
        breakdown == report.categoryBreakdown
    IN  /\ report.totalIncome = AmountOf({ row \in rows : row.type = "income" })
        /\ report.totalExpense = AmountOf({ row \in rows : row.type = "expense" })
        /\ report.profitLoss = report.totalIncome - report.totalExpense
        /\ report.transactionCount = Cardinality(rows)
        /\ Len(breakdown) = Cardinality(names)
        /\ \A name \in names :
              \E i \in 1..Len(breakdown) :
                  /\ breakdown[i].name = name
                  /\ breakdown[i].total = AmountOf({ row \in rows : nameOf(row) = name })
        /\ \A i, j \in 1..Len(breakdown) :
              i < j => breakdown[i].total >= breakdown[j].total

\* C20: every generateReport call that is answered without error sets the
\* report of the caller's transactions dated within [startDate, endDate] of
\* the call, both bounds included: income and expense totals, profit_loss
\* their difference, the transaction count, and one breakdown entry per
\* category, sorted by total descending.
C20_ReportOfInclusiveRange ==
    [][ (Len(rpPending') < Len(rpPending) /\ ~lastOp'.error)
           => \E i \in 1..Len(rpPending) :
                 /\ rpPending' = RemoveAt(rpPending, i)
                 /\ IsReportOf(reportData', rpPending[i].startDate,
                               rpPending[i].endDate) ]_vars

\* the week ending today: the rows dated on both bounds are counted, the
\* other user's row is not
C20_Witness ==
    /\ currentPage = "reports"
    /\ tz = "utc"
    /\ rpStartDate = <<2024, 3, 3>>
    /\ rpEndDate = <<2024, 3, 10>>
    /\ rpPending = <<>>
    /\ ~lastOp.error
    /\ reportData.transactionCount = 3
    /\ Len(reportData.categoryBreakdown) = 2
    /\ reportData.profitLoss = 1000

\* C18: whenever a filter of the transactions page changes, the page
\* re-enters Loading and calls the data store for the list again.
C18_FilterChangeReloads ==
    [][ txFilter' # txFilter
           => (txLoading' /\ Requests(txPending', "load") > Requests(txPending, "load")) ]_vars


----------------------------------------------------------------------------
(* Claims on the category breakdown *)

\* the transactions of a response that have no category linked
Unlinked(transactions) ==
    SelectSeq(transactions, LAMBDA t : ~t.categories.linked)

\* the transactions of a response linked to a category of this name
LinkedTo(transactions, name) ==
    SelectSeq(transactions, LAMBDA t : t.categories.linked /\ t.categories.name = name)

AmountsSum(transactions) ==
    SumSeq([i \in 1..Len(transactions) |-> transactions[i].amount])

\* C21: the breakdown has the group 'Uncategorized' exactly for the
\* transactions with no linked category and one group per linked category
\* name; a group's total is the sum of the amounts of its transactions and
\* its type is the type of its first transaction in input order.
C21_GroupsByResolvedName ==
    reportData # EmptyReport =>
        LET data == rpResponse.data
            breakdown == reportData.categoryBreakdown
        IN  \A i \in 1..Len(breakdown) :
                LET group == IF breakdown[i].name = Uncategorized THEN Unlinked(data)
                             ELSE LinkedTo(data, breakdown[i].name)
                IN  /\ group # <<>>
                    /\ breakdown[i].total = AmountsSum(group)
                    /\ breakdown[i].type = group[1].type

\* the sum of the totals of the entries of a breakdown
BreakdownSum(breakdown) ==
    SumSeq([i \in 1..Len(breakdown) |-> breakdown[i].total])

\* C26: the totals of the breakdown entries of a report add up to its total
\* income plus its total expense, and the breakdown has one entry per
\* distinct resolved category name of the transactions aggregated.
C26_BreakdownCoversTotals ==
    reportData # EmptyReport =>
        /\ BreakdownSum(reportData.categoryBreakdown)
              = reportData.totalIncome + reportData.totalExpense
        /\ Len(reportData.categoryBreakdown) = Cardinality(GroupNames(rpResponse.data))

\* a report of an income and an expense that resolve to one category name
C26_Witness ==
    /\ Len(rpResponse.data) = 2
    /\ Len(reportData.categoryBreakdown) = 1
    /\ reportData.totalIncome > 0
    /\ reportData.totalExpense > 0
    /\ reportData.categoryBreakdown[1].total
          = reportData.totalIncome + reportData.totalExpense

\* the total of a type in a report
TypeTotal(report, ty) ==
    IF ty = "income" THEN report.totalIncome ELSE report.totalExpense

\* C27: every breakdown entry's percentage is a number from 0 to 100, and
\* the percentages of the entries displayed with one type add up to 100
\* when that type's total is positive (percentages of one type share the
\* denominator, so their numerators add up to 100 times that total).
C27_PercentagesWithinTheirType ==
    reportData # EmptyReport =>
        LET breakdown == reportData.categoryBreakdown
        IN  /\ \A i \in 1..Len(breakdown) :
                  LET percentage == Percentage(breakdown[i], reportData)
                  IN  /\ percentage.kind = "finite"
                      /\ percentage.num >= 0
                      /\ percentage.num <= 100 * percentage.den
            /\ \A ty \in TxTypes :
                  TypeTotal(reportData, ty) > 0 =>
                     SumSeq([i \in 1..Len(breakdown) |->
                               IF breakdown[i].type = ty
                               THEN Percentage(breakdown[i], reportData).num
                               ELSE 0])
                        = 100 * TypeTotal(reportData, ty)


----------------------------------------------------------------------------
(* Claims on the CSV export *)

\* the lines the summary, the header and the breakdown of a report make
SummaryAndRows(report) ==
    << <<"Total Income", ToString(report.totalIncome)>>,
       <<"Total Expense", ToString(report.totalExpense)>>,
       <<"Profit/Loss", ToString(report.profitLoss)>>,
       <<"Total Transactions", ToString(report.transactionCount)>>,
       <<>>,
       <<"Category", "Type", "Amount">> >>
    \o [i \in 1..Len(report.categoryBreakdown) |->
          <<report.categoryBreakdown[i].name,
            report.categoryBreakdown[i].type,
            ToString(report.categoryBreakdown[i].total)>>]

\* C22 as stated: the file exportToCSV downloads is the four summary lines, a
\* blank line, the header row and one row per breakdown entry of the report
\* displayed, and nothing else.
C22_CsvIsSummaryAndRows ==
    [][ csvContent' # csvContent => csvContent' = SummaryAndRows(reportData) ]_vars

\* C22 amended: the file starts with the title line naming the selected
\* range and a blank line; the four summary lines, a blank line, the header
\* row and one row per breakdown entry of the report displayed follow, the
\* fields of a row in the order name, type, total.
C22_CsvIsTitleSummaryAndRows ==
    [][ csvContent' # csvContent
           => /\ Len(csvContent') = 2 + Len(SummaryAndRows(reportData))
              /\ csvContent'[1] = << [text |-> "Financial Report",
                                      from |-> rpStartDate, to |-> rpEndDate] >>
              /\ csvContent'[2] = <<>>
              /\ SubSeq(csvContent', 3, Len(csvContent')) = SummaryAndRows(reportData) ]_vars

\* a report with two breakdown entries exported
C22_Witness ==
    /\ Len(reportData.categoryBreakdown) = 2
    /\ Len(csvContent) = 10
    /\ csvContent[9][1] = reportData.categoryBreakdown[1].name
    /\ csvContent[10][3] = ToString(reportData.categoryBreakdown[2].total)


----------------------------------------------------------------------------
(* Claims on the forms *)

\* C23: every stored transaction that references a category has the type of
\* that category.
C23_TransactionTypeIsCategoryType ==
    \A t \in DOMAIN db.transactions :
        LET row == db.transactions[t]
        IN  (row.category_id # NULL /\ row.category_id \in DOMAIN db.categories)
                => row.type = db.categories[row.category_id].type


\* C24: no form has more than one of its submits in flight.
C24_OneSubmitInFlight ==
    /\ Requests(debtPending, "submit") <= 1
    /\ Requests(catPending, "submit") <= 1
    /\ OwnSubmits(txPending) <= 1


----------------------------------------------------------------------------
(* Claims on the reports page over the data store *)

\* C25: with no generateReport call in flight and a report set, the report
\* displayed is that of the range selected; and loading is on whenever a
\* call is in flight.
C25_ReportOfSelectedRange ==
    /\ ( /\ rpPending = <<>>
         /\ reportData # EmptyReport
         /\ rpStartDate # NoDate
         /\ rpEndDate # NoDate )
       => reportData = ReportOf(SelectReport(db, CurrentUser, rpStartDate, rpEndDate))
    /\ rpPending # <<>> => rpLoading



----------------------------------------------------------------------------
(* Claims on the AuthProvider *)

\* C28: user and profile are both null, or both set with the profile's id
\* that of the user.
C28_UserAndProfileTogether ==
    \/ user = NoUser /\ profile = NoProfile
    \/ user # NoUser /\ profile # NoProfile /\ profile.id = user.id



----------------------------------------------------------------------------
(* Claims on the pages that load on mount *)

\* a load of the page shown is in flight
PageLoadInFlight ==
    CASE currentPage = "transactions" -> Requests(txPending, "load") > 0
      [] currentPage = "analytics" -> anLoading
      [] currentPage = "reports" -> rpPending # <<>>
      [] currentPage = "dashboard" -> dashPending # <<>>
      [] OTHER -> FALSE

\* the loading flag of the page shown
PageLoading ==
    CASE currentPage = "transactions" -> txLoading
      [] currentPage = "analytics" -> anLoading
      [] currentPage = "reports" -> rpLoading
      [] currentPage = "dashboard" -> dashLoading
      [] OTHER -> FALSE

\* C29: a load of the transactions, analytics, reports or dashboard page
\* that is started leads to that page's loading flag being false, the
\* response being a success or a failure.
C29_LoadEndsNotLoading ==
    PageLoadInFlight ~> ~PageLoading

\* the dashboard after its load has failed: nothing in flight, not loading
C29_Witness ==
    /\ currentPage = "dashboard"
    /\ dashPending = <<>>
    /\ lastOp.error
    /\ ~dashLoading



----------------------------------------------------------------------------
(* Claims on the filters of the transactions page *)

\* a transaction passes the type filter and lies in [dateFrom, dateTo],
\* a bound that is empty not counting
PassesFilter(t, filter) ==
    /\ filter.type # "all" => t.type = filter.type
    /\ filter.dateFrom # NoDate => ~LexLess(t.transaction_date, filter.dateFrom)
    /\ filter.dateTo # NoDate => ~LexLess(filter.dateTo, t.transaction_date)

\* the positions of the loaded transactions that pass the filter
Passing ==
    { i \in 1..Len(txTransactions) : PassesFilter(txTransactions[i], txFilter) }

\* the k-th of them, in loaded order
NthPassing(k) ==
    CHOOSE i \in Passing : Cardinality({ j \in Passing : j < i }) = k - 1

\* income counted positive and expense negative
Signed(t) ==
    IF t.type = "income" THEN t.amount ELSE 0 - t.amount

\* C30: the filtered list is the sub-sequence, in loaded order, of the
\* loaded transactions that pass the filters; with the filters cleared it
\* is the loaded list; and the net balance displayed is the income minus
\* the expense of the transactions that pass.
C30_FilteredIsPassingSubsequence ==
    /\ Len(txFiltered) = Cardinality(Passing)
    /\ \A k \in 1..Len(txFiltered) : txFiltered[k] = txTransactions[NthPassing(k)]
    /\ txFilter = NoFilter => txFiltered = txTransactions
    /\ NetBalance(txFiltered)
          = SumSeq([i \in 1..Len(txTransactions) |->
                      IF i \in Passing THEN Signed(txTransactions[i]) ELSE 0])

\* a filter with both bounds set keeps a transaction dated on the To Date
\* and drops another one
C30_Witness ==
    /\ txFilter.dateFrom # NoDate
    /\ txFilter.dateTo # NoDate
    /\ txFiltered # <<>>
    /\ Len(txFiltered) < Len(txTransactions)
    /\ \E k \in 1..Len(txFiltered) : txFiltered[k].transaction_date = txFilter.dateTo
    /\ NetBalance(txFiltered) # 0

====
